---------------------------- MODULE Spec2Model ----------------------------
(***************************************************************************)
(* A model of atomsci/ddm/utils/hyperparam_search_wrapper.py: the          *)
(* hyperparameter search wrapper that expands a search configuration into *)
(* parameter combinations and dispatches one training job per             *)
(* (assay, combination) pair to a slurm queue.                            *)
(*                                                                         *)
(* The specifications share the module's variables:                        *)
(*   Spec       HyperparameterSearch.submit_jobs, run once and then again  *)
(*              after the training pipeline has registered models          *)
(*   SpecLive   Spec with the steps of submit_jobs taken eventually        *)
(*   SpecRetry  the retry loops around the external calls, each on its own *)
(*   SpecPerm   permutate_NNlayer_combo_params applied to bounded inputs   *)
(*   SpecCombos generate_param_combos on its own                           *)
(*   SpecGrid   GridSearch.generate_combo on one numeric value             *)
(*   SpecMain   main and run_search                                        *)
(*   SpecAssays generate_assay_list, get_shortlist_df and                  *)
(*              generate_split_shortlist                                   *)
(*   SpecDup    the duplicate check of submit_jobs on the second candidate *)
(*              of a sweep whose first candidate is in the registry        *)
(*   SpecSplit  split_and_save_dataset on an instance of each class        *)
(* A specification leaves the variables of the others at their idle        *)
(* values.                                                                 *)
(***************************************************************************)
EXTENDS Integers, Sequences, FiniteSets, TLC

\* ------------------------------------------------------------------------
\* Helpers on Python lists (sequences) and dicts (functions whose domain is
\* the set of keys present).
\* ------------------------------------------------------------------------

InSeq(x, s) == \E n \in 1..Len(s) : s[n] = x

Range(s) == {s[n] : n \in 1..Len(s)}

RECURSIVE SumSeq(_)
SumSeq(s) == IF s = <<>> THEN 0 ELSE Head(s) + SumSeq(Tail(s))

\* d[k] = v on a dict: adds the key or overwrites its value
DictSet(d, k, v) == [x \in (DOMAIN d) \cup {k} |-> IF x = k THEN v ELSE d[x]]

\* for k, v in src.items(): d[k] = v
DictUpdate(d, src) ==
    [x \in (DOMAIN d) \cup (DOMAIN src) |-> IF x \in DOMAIN src THEN src[x] ELSE d[x]]

\* del d[k] for every k of ks that is present
DictDel(d, ks) == [x \in (DOMAIN d) \ ks |-> d[x]]

EmptyDict == [x \in {} |-> 0]

\* ------------------------------------------------------------------------
\* permutate_NNlayer_combo_params
\* ------------------------------------------------------------------------

\* np.sort(np.array(node_nums))[::-1]: the node sizes in descending order
RECURSIVE InsertDesc(_, _)
InsertDesc(x, s) ==
    IF s = <<>> THEN <<x>>
    ELSE IF x >= Head(s) THEN <<x>> \o s
    ELSE <<Head(s)>> \o InsertDesc(x, Tail(s))

\* a variant that leaves the node sizes in the order given
Unsorted(s) == s

RECURSIVE SortDesc(_)
SortDesc(s) == IF s = <<>> THEN <<>> ELSE InsertDesc(Head(s), SortDesc(Tail(s)))

\* the prefix x put in front of every sequence of ss
RECURSIVE PrependAll(_, _)
PrependAll(x, ss) ==
    IF ss = <<>> THEN <<>> ELSE << <<x>> \o Head(ss) >> \o PrependAll(x, Tail(ss))

\* itertools.combinations(s, k): the length-k subsequences of s, positions
\* in lexicographic order; one empty tuple for k = 0
RECURSIVE Combinations(_, _)
Combinations(s, k) ==
    IF k = 0 THEN << <<>> >>
    ELSE IF Len(s) < k THEN <<>>
    ELSE PrependAll(Head(s), Combinations(Tail(s), k - 1)) \o Combinations(Tail(s), k)

\* a variant that does not look at what it has emitted
LayerAcceptedAgain(layer, max_final_layer_size, repeated_layers) ==
    layer[Len(layer)] <= max_final_layer_size

\* the condition of line 174 on one combination
LayerAccepted(layer, max_final_layer_size, repeated_layers) ==
    /\ layer[Len(layer)] <= max_final_layer_size
    /\ ~InSeq(layer, repeated_layers)

\* lines 172-177 for one layer_num: the combinations appended to
\* _repeated_layers (and, by the same statements, to layer_sizes)
RECURSIVE AppendLayers(_, _, _)
AppendLayers(layers, max_final_layer_size, repeated_layers) ==
    IF layers = <<>> THEN repeated_layers
    ELSE AppendLayers(Tail(layers), max_final_layer_size,
                      IF LayerAccepted(Head(layers), max_final_layer_size, repeated_layers)
                      THEN Append(repeated_layers, Head(layers))
                      ELSE repeated_layers)

\* lines 170-177 for one dropout value: _repeated_layers after every layer_num
RECURSIVE LayersForDropout(_, _, _, _)
LayersForDropout(layer_nums, node_nums, max_final_layer_size, repeated_layers) ==
    IF layer_nums = <<>> THEN repeated_layers
    ELSE LayersForDropout(Tail(layer_nums), node_nums, max_final_layer_size,
                          AppendLayers(Combinations(node_nums, Head(layer_nums)),
                                       max_final_layer_size, repeated_layers))

\* [(dropout) for i in layer]
DropoutsFor(layer, dropout) == [n \in 1..Len(layer) |-> dropout]

\* a variant that keeps the cap as given
UnrelaxedCap(sorted_nodes, max_final_layer_size) == max_final_layer_size

\* lines 166-167: the cap, relaxed to the smallest node size if necessary
RelaxedCap(sorted_nodes, max_final_layer_size) ==
    IF sorted_nodes[Len(sorted_nodes)] > max_final_layer_size
    THEN sorted_nodes[Len(sorted_nodes)]
    ELSE max_final_layer_size

\* the loop over dropout_list (lines 169-177)
RECURSIVE PermutateLoop(_, _, _, _)
PermutateLoop(dropout_list, layer_nums, node_nums, max_final_layer_size) ==
    IF dropout_list = <<>> THEN [layer_sizes |-> <<>>, dropouts |-> <<>>]
    ELSE LET emitted == LayersForDropout(layer_nums, node_nums, max_final_layer_size, <<>>)
             rest    == PermutateLoop(Tail(dropout_list), layer_nums, node_nums,
                                      max_final_layer_size)
         IN  [layer_sizes |-> emitted \o rest.layer_sizes,
              dropouts    |-> [n \in 1..Len(emitted) |->
                                  DropoutsFor(emitted[n], Head(dropout_list))]
                              \o rest.dropouts]

\* node_nums[-1] on an empty array (line 166) and layer[-1] on the empty
\* combination of a layer count 0 (line 174) raise IndexError
PermutateRaises(layer_nums, node_nums, dropout_list) ==
    \/ node_nums = <<>>
    \/ dropout_list # <<>> /\ InSeq(0, layer_nums)

permutate_NNlayer_combo_params(layer_nums, node_nums, dropout_list, max_final_layer_size) ==
    IF PermutateRaises(layer_nums, node_nums, dropout_list)
    THEN [raised |-> TRUE, layer_sizes |-> <<>>, dropouts |-> <<>>]
    ELSE LET sorted_nodes == SortDesc(node_nums)
             out == PermutateLoop(dropout_list, layer_nums, sorted_nodes,
                                  RelaxedCap(sorted_nodes, max_final_layer_size))
         IN  [raised |-> FALSE, layer_sizes |-> out.layer_sizes, dropouts |-> out.dropouts]


\* ------------------------------------------------------------------------
\* GridSearch.generate_combo on a numeric value (low, high, count)
\*
\* A sample is the fraction <<numerator, denominator>>, denominator > 0.
\* ------------------------------------------------------------------------

\* np.linspace(low, high, count): low + n * (high - low) / (count - 1) for
\* n = 0..count-1; the one sample of count = 1 is low; none for count = 0
linspace(low, high, count) ==
    IF count = 1 THEN << <<low, 1>> >>
    ELSE [n \in 1..count |-> <<low * (count - 1) + (n - 1) * (high - low), count - 1>>]

\* a variant that rounds down
FloorOf(x) == x[1] \div x[2]

\* int(x): the fraction cut off towards zero
IntOf(x) == IF x[1] >= 0 THEN x[1] \div x[2] ELSE -((-x[1]) \div x[2])

\* lines 883-887: the list put into new_dict for one numeric value
GridValues(low, high, count, integral) ==
    LET tmp_list == linspace(low, high, count)
    IN  IF integral
        THEN [n \in 1..Len(tmp_list) |-> <<IntOf(tmp_list[n]), 1>>]
        ELSE tmp_list

\* np.random.uniform(low, high, count): count draws low + u * (high - low),
\* u in [0, 1) delivered by the generator of numpy (draws[n], a fraction)
uniform(draws, low, high, count) ==
    [n \in 1..count |->
        <<low * draws[n][2] + draws[n][1] * (high - low), draws[n][2]>>]

\* lines 932-936
RandomValues(draws, low, high, count, integral) ==
    LET tmp_list == uniform(draws, low, high, count)
    IN  IF integral
        THEN [n \in 1..Len(tmp_list) |-> <<IntOf(tmp_list[n]), 1>>]
        ELSE tmp_list

\* np.geomspace(low, high, count): low * ratio^n for n = 0..count-1, with
\* ratio^(count-1) = high / low, for positive ends whose ratio is a whole
\* number; the one sample of count = 1 is low; none for count = 0
geomspace(low, high, count) ==
    IF count = 1 THEN << <<low, 1>> >>
    ELSE LET ratio == CHOOSE r \in 1..high : low * r^(count - 1) = high
         IN  [n \in 1..count |-> <<low * ratio^(n - 1), 1>>]

\* lines 982-986
GeometricValues(low, high, count, integral) ==
    LET tmp_list == geomspace(low, high, count)
    IN  IF integral
        THEN [n \in 1..Len(tmp_list) |-> <<IntOf(tmp_list[n]), 1>>]
        ELSE tmp_list

RECURSIVE GCD(_, _)
GCD(x, y) == IF y = 0 THEN x ELSE GCD(y, x % y)

\* a variant that cuts the number off
FloatTruncating(x) == <<IntOf(x), 1>>

\* float(x): the same number as a float, which has one representation (the
\* fraction in lowest terms)
FloatOf(x) ==
    LET g == GCD(IF x[1] >= 0 THEN x[1] ELSE -x[1], x[2])
    IN  <<x[1] \div g, x[2] \div g>>

\* ------------------------------------------------------------------------
\* Search configuration and HyperparameterSearch.generate_param_combos
\*
\* A configuration cfg holds the parsed parameters the dispatch reads:
\*   model_type, featurizer, learning_rate, rf_estimators, xgb_gamma
\*       lists of values (a scalar is a one-element list: lines 313-318
\*       treat both alike; an empty list is a parameter that is not set)
\*   layer_sizes, dropouts     lists of lists (one inner list per topology),
\*       or flat lists where flat names the key
\*   descriptor_type, collection_name, result_dir   scalars ("" = not set)
\*   previously_featurized     a boolean scalar
\*   search_type               the class of the search object
\*   convert_to_int            the keys of parse.convert_to_int_list
\*   convert_to_float          the keys of parse.convert_to_float_list
\*   uniform                   per key, the draws np.random.uniform is given
\*       by the generator of numpy (read by the random search only)
\* ------------------------------------------------------------------------

\* the key sets of lines 230-239, cut to the keys the configurations of the
\* model hold (no weight_init_stddevs, bias_init_consts, umap_* among them)
hyperparam_layers == {"layer_sizes", "dropouts"}

\* lines 210-213: the keys that are not used to generate hyperparameters
excluded_keys ==
    {"shortlist_key", "use_shortlist", "dataset_key", "object_oid", "script_dir", "python_path",
     "config_file", "hyperparam", "search_type", "split_only", "layer_nums", "node_nums",
     "dropout_list", "max_final_layer_size", "splitter", "nn_size_scale_factor", "rerun",
     "max_jobs"}

nn_specific_keys == {"learning_rate", "layers", "weight_decay_penalty"}

rf_specific_keys == {"rf_estimators", "rf_max_features", "rf_max_depth"}

xgboost_specific_keys == {"xgb_learning_rate", "xgb_gamma"}

\* the list-valued hyperparameter keys of a configuration, in the order the
\* loop of line 303 meets them ('layers' is added last, by assemble_layers)
ListKeys == <<"model_type", "featurizer", "learning_rate", "rf_estimators", "xgb_gamma">>

ScalarKeys == {"descriptor_type", "collection_name", "previously_featurized"}

\* the scalar keys with a boolean value; the others hold a string, "" for
\* a parameter left at None
BooleanKeys == {"previously_featurized"}

\* the keys whose values are strings: type(value[0]) == str
StringKeys == {"model_type", "featurizer"}

\* line 304, `not value`, for a scalar
Falsy(key, value) == IF key \in BooleanKeys THEN value = FALSE ELSE value = ""

\* lines 309-310: self.layers, the layer parameters given as lists of
\* lists; cfg.flat names the layer parameters given as flat lists, for
\* which type(value[0]) == list is false
Layers(cfg) ==
    [k \in {x \in hyperparam_layers : cfg[x] # <<>> /\ x \notin cfg.flat} |-> cfg[k]]

\* the keys that reach line 312: the list-valued hyperparameter keys and
\* the layer parameters given as flat lists
PlainKeys(cfg) == Range(ListKeys) \cup (cfg.flat \cap hyperparam_layers)

Min(S) == CHOOSE x \in S : \A y \in S : x <= y

\* assemble_layers: position n of every layer list zipped into one bundle;
\* a position whose lists differ in length is dropped (lines 394-398)
BundleAt(layers, n) == [k \in DOMAIN layers |-> layers[k][n]]

\* a variant that takes every position
BundleAlwaysOk(bundle) == TRUE

BundleOk(bundle) ==
    \A k1, k2 \in DOMAIN bundle : Len(bundle[k1]) = Len(bundle[k2])

RECURSIVE ZipLayers(_, _, _)
ZipLayers(layers, n, last) ==
    IF n > last THEN <<>>
    ELSE (IF BundleOk(BundleAt(layers, n)) THEN <<BundleAt(layers, n)>> ELSE <<>>)
         \o ZipLayers(layers, n + 1, last)

assemble_layers(layers) ==
    ZipLayers(layers, 1, Min({Len(layers[k]) : k \in DOMAIN layers}))

\* lines 312-320: self.hyperparams, the keys left to sweep (more than one
\* value), with 'layers' added by assemble_layers (lines 324-325, 400)
Hyperparams(cfg) ==
    LET multi == {k \in PlainKeys(cfg) : Len(cfg[k]) > 1}
        keys  == multi \cup (IF DOMAIN Layers(cfg) # {} THEN {"layers"} ELSE {})
    IN  [k \in keys |-> IF k = "layers" THEN assemble_layers(Layers(cfg)) ELSE cfg[k]]

\* lines 304-322: self.new_params, the parameters copied into every job
NewParams(cfg, hyperparam_uuid) ==
    LET single == {k \in PlainKeys(cfg) : Len(cfg[k]) = 1}
        scalar == {k \in ScalarKeys : ~Falsy(k, cfg[k])}
    IN  [k \in single \cup scalar \cup {"result_dir"} |->
            IF k = "result_dir" THEN <<cfg.result_dir, hyperparam_uuid>>
            ELSE IF k \in single THEN cfg[k][1]
            ELSE cfg[k]]

\* self.hyperparam_keys after the loop: the single-valued keys removed
\* (lines 315, 318), 'layers' added (line 401)
HyperparamKeys(cfg) ==
    ((({"model_type", "featurizer", "splitter", "learning_rate", "weight_decay_penalty",
        "rf_estimators", "rf_max_features", "rf_max_depth", "xgb_learning_rate",
        "xgb_gamma"} \cup hyperparam_layers)
      \ {k \in PlainKeys(cfg) : Len(cfg[k]) = 1})
     \cup (IF DOMAIN Layers(cfg) # {} THEN {"layers"} ELSE {}))

\* the key order of a dict built like subcombo: the swept keys in the order
\* of self.hyperparams, then model_type and featurizer where newly added
SubcomboOrder(keys) ==
    SelectSeq(ListKeys \o <<"layer_sizes", "dropouts", "layers">>,
              LAMBDA k : k \in keys /\ k \notin {"model_type", "featurizer"})
    \o <<"model_type", "featurizer">>

\* lines 335-339, 346-349, 356-359: the restricted subset of one
\* (model type, featurizer) pair
Subcombo(cfg, model_type, featurizer) ==
    LET other == IF model_type = "NN" THEN rf_specific_keys \cup xgboost_specific_keys
                 ELSE IF model_type = "RF" THEN nn_specific_keys \cup xgboost_specific_keys
                 ELSE nn_specific_keys \cup rf_specific_keys
        hp   == Hyperparams(cfg)
        keys == {k \in DOMAIN hp : k \in HyperparamKeys(cfg) \ other}
    IN  [k \in keys \cup {"model_type", "featurizer"} |->
            IF k = "model_type" THEN <<model_type>>
            ELSE IF k = "featurizer" THEN <<featurizer>>
            ELSE hp[k]]

\* a variant that takes the first value of every list only
FirstOfEach(keys, new_dict) ==
    IF \E n \in 1..Len(keys) : new_dict[keys[n]] = <<>> THEN <<>>
    ELSE << [k \in Range(keys) |-> new_dict[k][1]] >>

\* itertools.product over the values of new_dict, one dict per tuple, the
\* first key varying slowest (lines 373-380)
RECURSIVE ProductDicts(_, _)
ProductDicts(keys, new_dict) ==
    IF keys = <<>> THEN <<EmptyDict>>
    ELSE LET rest == ProductDicts(Tail(keys), new_dict)
             vals == new_dict[Head(keys)]
             WithValue(v) == [n \in 1..Len(rest) |-> DictSet(rest[n], Head(keys), v)]
             RECURSIVE Each(_)
             Each(m) == IF m > Len(vals) THEN <<>> ELSE WithValue(vals[m]) \o Each(m + 1)
         IN  Each(1)

\* GridSearch.generate_combo (lines 879-890), RandomSearch.generate_combo
\* (lines 929-939), GeometricSearch.generate_combo (lines 978-988) and
\* UserSpecifiedSearch.generate_combo (lines 1025-1036); self is the
\* configuration, whose search_type selected the class.  A number that
\* int() or float() is applied to is a fraction <<numerator, denominator>>,
\* and a numeric value of the three sampling searches is (low, high, count).
generate_combo(self, params_dict) ==
    [key \in DOMAIN params_dict |->
        LET value == params_dict[key]
            integral == key \in self.convert_to_int
        IN  IF key = "layers" THEN value
            ELSE IF self.search_type = "user_specified"
            THEN IF key \in self.convert_to_int
                 THEN [n \in 1..Len(value) |-> <<IntOf(value[n]), 1>>]
                 ELSE IF key \in self.convert_to_float
                 THEN [n \in 1..Len(value) |-> FloatOf(value[n])]
                 ELSE value
            ELSE IF key \notin StringKeys
            THEN CASE self.search_type = "grid" ->
                          GridValues(value[1], value[2], value[3], integral)
                   [] self.search_type = "random" ->
                          RandomValues(self.uniform[key], value[1], value[2], value[3],
                                       integral)
                   [] self.search_type = "geometric" ->
                          GeometricValues(value[1], value[2], value[3], integral)
            ELSE value]

\* lines 372-380
generate_combos(self, params_dict) ==
    ProductDicts(SubcomboOrder(DOMAIN params_dict), generate_combo(self, params_dict))

\* lines 334-340, 342-350, 352-360: the combinations of one model type
RECURSIVE CombosForModelType(_, _, _)
CombosForModelType(cfg, model_type, featurizers) ==
    IF featurizers = <<>> THEN <<>>
    ELSE (IF model_type # "NN" /\ Head(featurizers) = "graphconv" THEN <<>>
          ELSE generate_combos(cfg, Subcombo(cfg, model_type, Head(featurizers))))
         \o CombosForModelType(cfg, model_type, Tail(featurizers))

\* lines 331-360: self.param_combos
RECURSIVE ParamCombos(_, _)
ParamCombos(cfg, model_types) ==
    IF model_types = <<>> THEN <<>>
    ELSE (IF Head(model_types) \in {"NN", "RF", "xgboost"}
          THEN CombosForModelType(cfg, Head(model_types), cfg.featurizer)
          ELSE <<>>)
         \o ParamCombos(cfg, Tail(model_types))

\* ------------------------------------------------------------------------
\* Job records: get_num_params, reformat_filter_dict, the record built by
\* submit_jobs
\* ------------------------------------------------------------------------

\* os.path.splitext(os.path.basename(assay))[0] (line 743) on the dataset
\* keys of the model
Basename(dataset_key) ==
    IF dataset_key = "a1.csv" THEN "a1"
    ELSE IF dataset_key = "dir/b2.csv" THEN "b2"
    ELSE dataset_key

\* dataset_key.split('/')[-1].rstrip('.csv') (line 478): rstrip removes any
\* trailing run of the characters '.', 'c', 's', 'v'
SplitRstrip(dataset_key) ==
    IF dataset_key = "a1.csv" THEN "a1"
    ELSE IF dataset_key = "dir/b2.csv" THEN "b2"
    ELSE dataset_key

\* lines 741-747: the per-assay base, a deep copy of new_params with the
\* assay's fields; an assay is (dataset_key, bucket, splitter, split_uuid)
AssayBase(params_base, assay) ==
    DictUpdate(params_base,
               [dataset_key      |-> assay[1],
                dataset_name     |-> Basename(assay[1]),
                bucket           |-> assay[2],
                split_uuid       |-> assay[4],
                previously_split |-> TRUE,
                splitter         |-> assay[3]])

\* lines 770-775: one combination written into the working record, the
\* sub-keys of a layers entry one by one
OverlayCombo(record, combo) ==
    DictUpdate(DictUpdate(record, DictDel(combo, {"layers"})),
               IF "layers" \in DOMAIN combo THEN combo["layers"] ELSE EmptyDict)

\* line 195
LayerParamSum(layers) ==
    layers[1] + SumSeq([n \in 1..(Len(layers) - 1) |->
                           layers[n] * layers[n + 1] + layers[n + 1]])

\* get_num_params: [none |-> TRUE] is Python's None, returned when the
\* function falls off its end (featurizer 'descriptors' with a descriptor
\* type other than moe and mordred_filtered)
get_num_params(combo) ==
    LET layers  == combo["layer_sizes"]
        tmp_sum == LayerParamSum(layers)
    IN  IF combo["featurizer"] = "ecfp"
        THEN [none |-> FALSE, n |-> tmp_sum + layers[1] * 1024]
        ELSE IF combo["featurizer"] = "descriptors"
        THEN IF combo["descriptor_type"] = "moe"
             THEN [none |-> FALSE, n |-> tmp_sum + layers[1] * 306]
             ELSE IF combo["descriptor_type"] = "mordred_filtered"
             THEN [none |-> FALSE, n |-> tmp_sum + layers[1] * 1555]
             ELSE [none |-> TRUE, n |-> 0]
        ELSE [none |-> FALSE, n |-> tmp_sum]

\* lines 776-777 (and 756-757): whether the size filter looks at the record
FilterApplies(record, rows) ==
    /\ record["model_type"] = "NN"
    /\ record["featurizer"] # "graphconv"
    /\ record["dataset_key"] \in DOMAIN rows

\* a variant that lets a network of exactly num_row parameters pass
TooManyParamsStrict(num_params, scale_factor, num_row) ==
    num_params * scale_factor > num_row

\* line 779 (and 759): the rejection of an over-sized network
TooManyParams(num_params, scale_factor, num_row) ==
    num_params * scale_factor >= num_row

\* reformat_filter_dict, lines 88-113: the namespaces and their keys
RenameDict(filter_dict) ==
    [ns \in {"ModelMetadata.ModelParameters",
             "ModelMetadata.SplittingParameters.Splitting",
             "ModelMetadata.TrainingDataset",
             "ModelMetadata.UmapSpecific",
             "ModelMetadata.NNSpecific",
             "ModelMetadata.RFSpecific",
             "ModelMetadata.xgboostSpecific",
             "ModelMetadata.ECFPSpecific",
             "ModelMetadata.DescriptorSpecific",
             "ModelMetadata.AutoencoderSpecific"} |->
        CASE ns = "ModelMetadata.ModelParameters" ->
                 {"featurizer", "model_choice_score_type", "model_dataset_oid", "model_type",
                  "num_model_tasks", "prediction_type", "transformer_bucket",
                  "transformer_key", "transformer_oid", "transformers", "uncertainty"}
          [] ns = "ModelMetadata.SplittingParameters.Splitting" ->
                 {"num_folds", "split_strategy", "split_test_frac", "split_uuid",
                  "split_valid_frac", "splitter"}
          [] ns = "ModelMetadata.TrainingDataset" ->
                 {"dataset_key", "dataset_bucket", "dataset_oid", "num_classes",
                  "feature_transform_type", "response_transform_type", "id_col",
                  "smiles_col", "response_cols"}
          [] ns = "ModelMetadata.UmapSpecific" ->
                 {"umap_dim", "umap_metric", "umap_targ_wt", "umap_neighbors", "umap_min_dist"}
          [] ns = "ModelMetadata.NNSpecific" ->
                 IF filter_dict["model_type"] = "NN"
                 THEN {"batch_size", "bias_init_consts", "dropouts", "layer_sizes",
                       "learning_rate", "max_epochs", "optimizer_type", "weight_init_stddevs"}
                 ELSE {}
          [] ns = "ModelMetadata.RFSpecific" ->
                 IF filter_dict["model_type"] = "RF"
                 THEN {"rf_estimators", "rf_max_features"} ELSE {}
          [] ns = "ModelMetadata.xgboostSpecific" ->
                 IF filter_dict["model_type"] = "xgboost"
                 THEN {"xgb_learning_rate", "xgb_gamma"} ELSE {}
          [] ns = "ModelMetadata.ECFPSpecific" ->
                 IF filter_dict["featurizer"] = "ecfp"
                 THEN {"ecfp_radius", "ecfp_size"} ELSE {}
          [] ns = "ModelMetadata.DescriptorSpecific" ->
                 IF filter_dict["featurizer"] = "descriptor"
                 THEN {"descriptor_key", "descriptor_bucket", "descriptor_oid",
                       "descriptor_type"}
                 ELSE {}
          [] ns = "ModelMetadata.AutoencoderSpecific" ->
                 IF filter_dict["featurizer"] = "molvae"
                 THEN {"autoencoder_model_key", "autoencoder_model_bucket",
                       "autoencoder_model_oid", "autoencoder_type"}
                 ELSE {}]

\* reformat_filter_dict, lines 114-130: every listed key that is present,
\* renamed to '<namespace>.<key>' (the pair <<namespace, key>>); the numpy
\* conversions of lines 119-128 keep the value
reformat_filter_dict(filter_dict) ==
    LET rename_dict == RenameDict(filter_dict)
        renamed == {<<ns, k>> \in (DOMAIN rename_dict) \X (DOMAIN filter_dict) :
                       k \in rename_dict[ns]}
    IN  [nk \in renamed |-> filter_dict[nk[2]]]

\* already_run, line 803: the keys deleted from the copy
VolatileKeys ==
    {"result_dir", "previously_featurized", "collection_name", "time_generated",
     "hyperparam_uuid", "model_uuid"}

\* a variant that filters on every key of the record, the volatile ones
\* included
FilterDictKeepingVolatile(record) ==
    [nk \in {<<"ModelMetadata.ModelParameters", k>> : k \in DOMAIN record} |-> record[nk[2]]]

\* a variant that also filters on the output directory
FilterDictWithResultDir(record) ==
    DictUpdate(reformat_filter_dict(DictDel(record, VolatileKeys)),
               [nk \in {<<"ModelMetadata.ModelParameters", k>> :
                           k \in DOMAIN record \cap {"result_dir"}} |-> record[nk[2]]])

\* already_run, lines 802-806: the registry filter of a record
FilterDict(record) == reformat_filter_dict(DictDel(record, VolatileKeys))

\* The model tracker (trkr.get_metadata): the models of the collection that
\* agree with the filter on every key of it.  A model holds the parameters
\* of the job that trained it, filed under the namespaces of the filter.
TrackerGetMetadata(filter_dict, collection_name, models) ==
    {m \in models :
        /\ m.collection_name = collection_name
        /\ \A nk \in DOMAIN filter_dict :
              /\ nk[2] \in DOMAIN m.params
              /\ m.params[nk[2]] = filter_dict[nk]}

\* The model the training pipeline registers for a submitted job
ModelOf(job) == [collection_name |-> job.params["collection_name"], params |-> job.params]

\* ------------------------------------------------------------------------
\* Bounds and inputs
\* ------------------------------------------------------------------------

\* the slurm queue holds at most MaxQueue jobs of the user
MaxQueue == 3

\* max_jobs is drawn from 1..MaxJobsCap
MaxJobsCap == 2

\* permutate_NNlayer_combo_params: node sizes 1..MaxNodeSize, layer counts
\* 0..MaxLayerNum, lists of at most these lengths
MaxNodeSize == 2

MaxLayerNum == 2

MaxNodeNums == 3

MaxLayerNums == 2

MaxDropouts == 2

\* GridSearch.generate_combo: count in 0..MaxCount, low and high in
\* -MaxGridValue..MaxGridValue
MaxCount == 5

MaxGridValue == 3

\* the draws a configuration of the random search holds per key
MaxDraws == 2

SeqsUpTo(S, n) == UNION {[1..m -> S] : m \in 0..n}

CfgNone ==
    [model_type |-> <<>>, featurizer |-> <<>>, learning_rate |-> <<>>,
     rf_estimators |-> <<>>, xgb_gamma |-> <<>>, layer_sizes |-> <<>>, dropouts |-> <<>>,
     flat |-> {}, descriptor_type |-> "", collection_name |-> "coll",
     previously_featurized |-> FALSE, result_dir |-> "res",
     search_type |-> "user_specified", convert_to_int |-> {"rf_estimators"},
     convert_to_float |-> {}, uniform |-> <<>>]

\* a random forest on graph convolution features: no combination at all
CfgRFGraphconv ==
    [CfgNone EXCEPT !.model_type = <<"RF">>, !.featurizer = <<"graphconv">>,
                    !.rf_estimators = <<5>>]

\* a neural network swept over two topologies
CfgNNLayers ==
    [CfgNone EXCEPT !.model_type = <<"NN">>, !.featurizer = <<"ecfp">>,
                    !.learning_rate = <<1>>, !.previously_featurized = TRUE,
                    !.layer_sizes = << <<1>>, <<2, 1>> >>,
                    !.dropouts = << <<0>>, <<0, 0>> >>]

\* two model types, the neural network swept over two learning rates
CfgNNandRF ==
    [CfgNone EXCEPT !.model_type = <<"NN", "RF">>, !.featurizer = <<"ecfp">>,
                    !.learning_rate = <<1, 2>>, !.rf_estimators = <<5>>,
                    !.layer_sizes = << <<1>> >>, !.dropouts = << <<0>> >>]

\* a neural network on descriptors, of a type get_num_params knows or not
CfgDescriptors(descriptor_type) ==
    [CfgNone EXCEPT !.model_type = <<"NN">>, !.featurizer = <<"descriptors">>,
                    !.descriptor_type = descriptor_type,
                    !.layer_sizes = << <<3>>, <<4>> >>, !.dropouts = << <<0>>, <<0>> >>]

\* The configurations generate_param_combos is checked on: every choice of
\* model types, featurizers, swept or fixed values and layer parameters,
\* under the grid, random and geometric searches (a swept numeric value is
\* (low, high, count)) and the user-specified search (a swept value is the
\* list of its values).
ModelTypeChoices ==
    {<<"NN">>, <<"RF">>, <<"xgboost">>, <<"NN", "RF">>, <<"RF", "xgboost", "NN">>,
     <<"NN", "hybrid">>}

FeaturizerChoices == {<<"ecfp">>, <<"graphconv">>, <<"graphconv", "ecfp">>}

LearningRateChoices(search_type) ==
    CASE search_type = "grid" -> {<<>>, <<0>>, <<0, 1, 3>>, <<1, 2, 0>>}
      [] search_type = "random" -> {<<>>, <<0, 2, 2>>}
      [] search_type = "geometric" -> {<<>>, <<1, 4, 3>>}
      [] search_type = "user_specified" -> {<<>>, << <<0, 1>> >>, << <<2, 4>>, <<2, 1>> >>}

RfEstimatorsChoices(search_type) ==
    CASE search_type = "grid" -> {<<>>, <<5>>, <<-1, 2, 3>>}
      [] search_type = "random" -> {<<>>, <<1, 4, 1>>}
      [] search_type = "geometric" -> {<<>>, <<1, 4, 2>>}
      [] search_type = "user_specified" ->
             {<<>>, << <<5, 1>> >>, << <<5, 2>>, <<7, 1>>, <<-3, 2>> >>}

XgbGammaChoices(search_type) ==
    CASE search_type = "grid" -> {<<>>, <<0, 1, 2>>}
      [] search_type \in {"random", "geometric"} -> {<<>>}
      [] search_type = "user_specified" -> {<<>>, << <<0, 1>>, <<1, 2>> >>}

\* the draws of the generator, per key that the random search samples (the
\* draws for a flat list of layer sizes are all the midpoint)
UniformChoices(search_type) ==
    IF search_type = "random"
    THEN {[key \in {"learning_rate", "rf_estimators", "layer_sizes"} |->
              IF key = "layer_sizes" THEN [n \in 1..MaxDraws |-> <<1, 2>>] ELSE draws[key]] :
          draws \in [{"learning_rate", "rf_estimators"} ->
                        [1..MaxDraws -> {<<0, 1>>, <<1, 2>>}]]}
    ELSE {<<>>}

ConvertToFloatChoices(search_type) ==
    IF search_type = "user_specified" THEN {{}, {"learning_rate", "xgb_gamma"}} ELSE {{}}

\* no layer parameters; two topologies; two topologies of which the second
\* has one dropout too few; two topologies for three dropout lists, the
\* first with one dropout too few; one flat list of layer sizes
LayerChoices ==
    {[layer_sizes |-> <<>>, dropouts |-> <<>>, flat |-> {}],
     [layer_sizes |-> << <<1>>, <<2, 1>> >>, dropouts |-> << <<0>>, <<0, 0>> >>, flat |-> {}],
     [layer_sizes |-> << <<1>>, <<2, 1>> >>, dropouts |-> << <<0>>, <<0>> >>, flat |-> {}],
     [layer_sizes |-> << <<2, 1>>, <<1>> >>, dropouts |-> << <<0>>, <<1>>, <<0>> >>,
      flat |-> {}],
     [layer_sizes |-> <<3, 2, 1>>, dropouts |-> <<>>, flat |-> {"layer_sizes"}]}

ComboConfigs(search_types) ==
    UNION {
        {[CfgNone EXCEPT !.search_type = search_type, !.model_type = model_type,
                         !.featurizer = featurizer, !.learning_rate = learning_rate,
                         !.rf_estimators = rf_estimators, !.xgb_gamma = xgb_gamma,
                         !.layer_sizes = layers.layer_sizes, !.dropouts = layers.dropouts,
                         !.flat = layers.flat, !.convert_to_int = convert_to_int,
                         !.convert_to_float = convert_to_float, !.uniform = draws] :
            model_type \in ModelTypeChoices, featurizer \in FeaturizerChoices,
            learning_rate \in LearningRateChoices(search_type),
            rf_estimators \in RfEstimatorsChoices(search_type),
            xgb_gamma \in XgbGammaChoices(search_type), layers \in LayerChoices,
            convert_to_int \in {{"rf_estimators"}, {"rf_estimators", "xgb_gamma"}},
            convert_to_float \in ConvertToFloatChoices(search_type),
            draws \in UniformChoices(search_type)} :
        search_type \in search_types}

Configs ==
    {CfgRFGraphconv, CfgNNLayers, CfgNNandRF,
     CfgDescriptors("moe"), CfgDescriptors("rdkit_raw")}

DatasetKeys == {"a1.csv", "dir/b2.csv"}

\* the assay list generate_assay_list leaves in self.assays: two datasets
\* of a shortlist, each (dataset_key, bucket, splitter, split_uuid)
AssayLists ==
    {<< <<"a1.csv", "bkt", "scaffold", "su2">>, <<"dir/b2.csv", "bkt", "scaffold", "su3">> >>}

\* what the datastore holds for a dataset: metadata with or without num_row
MetadataChoices == {EmptyDict, [num_row |-> 1025], [num_row |-> 1026]}

Datastores ==
    {[k \in DatasetKeys |-> IF k = "a1.csv" THEN m ELSE [num_row |-> 1229]] :
        m \in MetadataChoices}

PermInputs ==
    [layer_nums : SeqsUpTo(0..MaxLayerNum, MaxLayerNums),
     node_nums : SeqsUpTo(1..MaxNodeSize, MaxNodeNums),
     dropout_list : SeqsUpTo({0, 1}, MaxDropouts),
     max_final_layer_size : 0..MaxNodeSize]

\* the two calls of the docstring (lines 138-145)
PermExampleDistinct ==
    [layer_nums |-> <<2>>, node_nums |-> <<4, 8, 16>>, dropout_list |-> <<0>>,
     max_final_layer_size |-> 16]

PermExampleRepeated ==
    [layer_nums |-> <<2>>, node_nums |-> <<4, 8, 8>>, dropout_list |-> <<0>>,
     max_final_layer_size |-> 16]

PermExamples == {PermExampleDistinct, PermExampleRepeated}

\* ------------------------------------------------------------------------
\* State
\* ------------------------------------------------------------------------

VARIABLES
    params,          \* rerun, max_jobs, nn_size_scale_factor and the configuration
    hyperparam_uuid, \* self.hyperparam_uuid of the running instance
    new_params,      \* self.new_params
    param_combos,    \* self.param_combos
    assays,          \* self.assays
    num_rows,        \* self.num_rows
    datastore,       \* the metadata the datastore holds per dataset key
    registry,        \* the models the model tracker holds
    queue,           \* the user's jobs in the slurm queue
    pc,              \* the position of submit_jobs
    a,               \* the index of the assay of the outer loop
    c,               \* the index of the combination of the inner loop (0: none)
    assay_params,    \* the working record of submit_jobs
    base_result_dir, \* line 754
    jobs_in_queue,   \* i of lines 783-787, the last polled queue count
    meta_gave_up,    \* get_dataset_metadata returned None for the current assay
    trail,           \* the steps taken for the current candidate
    submitted,       \* the jobs handed to run_command, in order
    run,             \* "first" or "second" run of submit_jobs
    loop,            \* the retry loop being executed
    loop_pc,         \* its position: "try", "sleep", "ok", "gave_up"
    i,               \* its retry counter
    attempts,        \* the calls it has made
    failures,        \* the calls that raised
    slept,           \* the seconds it has slept
    perm_args,       \* the arguments of permutate_NNlayer_combo_params
    perm_result,     \* what it returned
    grid_args,       \* a numeric value handed to GridSearch.generate_combo
    grid_result,     \* the list it put into new_dict
    main_args,       \* the parameters main reads: search_type, split_only
    main_pc,         \* the position of main
    calls,           \* the methods main has called, in order
    exit_status,     \* the status main exited with
    rs_args,         \* what the resolution of the assays reads: params, shortlist
    rs_pc,           \* the position of generate_assay_list / generate_split_shortlist
    rs_i,            \* the retry counter i of the loop being executed
    rs_exit,         \* how the process ended: "" (it has not), "sys.exit", an exception
    pos,             \* the loop indices: splitter, dataset, split combination
    datasets,        \* datasets of get_shortlist_df and generate_split_shortlist
    shortlist_assays, \* the local list assays of get_shortlist_df
    assay_list,      \* self.assays as generate_assay_list sets it
    split_calls,     \* the calls of return_split_uuid, in order
    split_uuids,     \* the row generate_split_shortlist is filling
    shortlist_rows,  \* rows of generate_split_shortlist
    uploads,         \* the tables handed to dsf.upload_df_to_DS that were stored
    sas_self,        \* the class of the instance split_and_save_dataset is called on
    sas_pc,          \* the position of split_and_save_dataset
    sas_frames,      \* the frames on the interpreter's stack
    sas_params,      \* the assay_params the call was given
    sas_ops,         \* the external operations the call has invoked, in order
    sas_exit         \* how the call ended: "" (it has not), "returned", an exception

configVars == <<params, hyperparam_uuid, new_params, param_combos, assays, datastore>>

submitVars ==
    <<num_rows, registry, queue, pc, a, c, assay_params, base_result_dir, jobs_in_queue,
      meta_gave_up, trail, submitted, run>>

retryVars == <<loop, loop_pc, i, attempts, failures, slept>>

permVars == <<perm_args, perm_result>>

gridVars == <<grid_args, grid_result>>

mainVars == <<main_args, main_pc, calls, exit_status>>

assayVars ==
    <<rs_args, rs_pc, rs_i, rs_exit, pos, datasets, shortlist_assays, assay_list, split_calls,
      split_uuids, shortlist_rows, uploads>>

\* the variables of the functions modelled on their own
splitVars == <<sas_self, sas_pc, sas_frames, sas_params, sas_ops, sas_exit>>

sideVars == <<permVars, gridVars, mainVars, assayVars, splitVars>>

vars == <<configVars, submitVars, retryVars, sideVars>>

\* ------------------------------------------------------------------------
\* The retry loops around the external calls
\* ------------------------------------------------------------------------

Loops ==
    {"get_dataset_metadata", "return_split_uuid_metadata", "return_split_uuid_split",
     "generate_split_shortlist_fetch", "generate_split_shortlist_upload",
     "get_shortlist_df", "already_run"}

\* the retry ceiling each loop compares its counter with (`if i < 5`)
RetryLimit ==
    [get_dataset_metadata            |-> 5,
     return_split_uuid_metadata      |-> 5,
     return_split_uuid_split         |-> 5,
     generate_split_shortlist_fetch  |-> 5,
     generate_split_shortlist_upload |-> 5,
     get_shortlist_df                |-> 5,
     already_run                     |-> 5]

\* the seconds each loop sleeps before it retries (`time.sleep(60)`)
SleepSeconds ==
    [get_dataset_metadata            |-> 60,
     return_split_uuid_metadata      |-> 60,
     return_split_uuid_split         |-> 60,
     generate_split_shortlist_fetch  |-> 60,
     generate_split_shortlist_upload |-> 60,
     get_shortlist_df                |-> 60,
     already_run                     |-> 60]

\* a variant that retries once more
MayRetryOnceMore(name, counter) == counter <= RetryLimit[name]

\* the except branch: retry while the counter is below the ceiling
MayRetry(name, counter) == counter < RetryLimit[name]

\* `retry = True; i = 0; while retry:`
LoopStart(name) ==
    /\ loop' = name
    /\ loop_pc' = "try"
    /\ i' = 0
    /\ attempts' = 0
    /\ failures' = 0
    /\ slept' = 0

\* one pass through the try statement of loop `name`: the call returns, or
\* it raises and the except branch chooses between sleeping and giving up
RetryAttempt(name) ==
    /\ loop = name
    /\ loop_pc = "try"
    /\ attempts' = attempts + 1
    /\ \/ /\ loop_pc' = "ok"
          /\ UNCHANGED failures
       \/ /\ failures' = failures + 1
          /\ loop_pc' = IF MayRetry(name, i) THEN "sleep" ELSE "gave_up"
    /\ UNCHANGED <<loop, i, slept>>
    /\ UNCHANGED <<configVars, submitVars, sideVars>>

\* `time.sleep(60); i += 1`, then the loop tries again
RetrySleep(name) ==
    /\ loop = name
    /\ loop_pc = "sleep"
    /\ slept' = slept + SleepSeconds[name]
    /\ i' = i + 1
    /\ loop_pc' = "try"
    /\ UNCHANGED <<loop, attempts, failures>>
    /\ UNCHANGED <<configVars, submitVars, sideVars>>

GetDatasetMetadataAttempt == RetryAttempt("get_dataset_metadata")

GetDatasetMetadataSleep == RetrySleep("get_dataset_metadata")

ReturnSplitUuidMetadataAttempt == RetryAttempt("return_split_uuid_metadata")

ReturnSplitUuidMetadataSleep == RetrySleep("return_split_uuid_metadata")

ReturnSplitUuidSplitAttempt == RetryAttempt("return_split_uuid_split")

ReturnSplitUuidSplitSleep == RetrySleep("return_split_uuid_split")

SplitShortlistFetchAttempt == RetryAttempt("generate_split_shortlist_fetch")

SplitShortlistFetchSleep == RetrySleep("generate_split_shortlist_fetch")

SplitShortlistUploadAttempt == RetryAttempt("generate_split_shortlist_upload")

SplitShortlistUploadSleep == RetrySleep("generate_split_shortlist_upload")

GetShortlistDfAttempt == RetryAttempt("get_shortlist_df")

GetShortlistDfSleep == RetrySleep("get_shortlist_df")

AlreadyRunAttempt == RetryAttempt("already_run")

AlreadyRunSleep == RetrySleep("already_run")

\* ------------------------------------------------------------------------
\* Idle values: what a specification leaves the other parts at
\* ------------------------------------------------------------------------

RetryIdle ==
    /\ loop = "none"
    /\ loop_pc = "idle"
    /\ i = 0
    /\ attempts = 0
    /\ failures = 0
    /\ slept = 0

PermIdle ==
    /\ perm_args = [layer_nums |-> <<>>, node_nums |-> <<>>, dropout_list |-> <<>>,
                    max_final_layer_size |-> 0]
    /\ perm_result = [called |-> FALSE, raised |-> FALSE, layer_sizes |-> <<>>,
                      dropouts |-> <<>>]

\* the process has not exited
NotExited == -1

GridIdle ==
    /\ grid_args = [low |-> 0, high |-> 0, count |-> 0, integral |-> FALSE]
    /\ grid_result = [called |-> FALSE, values |-> <<>>]

MainIdle ==
    /\ main_args = [search_type |-> "", split_only |-> FALSE, use_shortlist |-> FALSE]
    /\ main_pc = "idle"
    /\ calls = <<>>
    /\ exit_status = NotExited

\* a str, possibly with white space around it; None and NaN have no strip
Str(text) == [none |-> FALSE, text |-> text, padded |-> FALSE]

Padded(text) == [none |-> FALSE, text |-> text, padded |-> TRUE]

NoneValue == [none |-> TRUE, text |-> "None", padded |-> FALSE]

NaN == [none |-> TRUE, text |-> "nan", padded |-> FALSE]

\* a list, or None in its place
ListOf(items) == [none |-> FALSE, items |-> items]

NoList == [none |-> TRUE, items |-> <<>>]

NoShortlist ==
    [names |-> <<>>, bucket_col |-> "", buckets |-> <<>>, split_cols |-> {}, uuids |-> <<>>,
     fetched |-> "df"]

SplitIdle ==
    /\ sas_self = ""
    /\ sas_pc = "idle"
    /\ sas_frames = 0
    /\ sas_params = EmptyDict
    /\ sas_ops = <<>>
    /\ sas_exit = ""

AssayIdle ==
    /\ rs_args = [method |-> "", use_shortlist |-> FALSE, dataset_key |-> Str(""),
                  bucket |-> Str(""), splitter |-> <<>>, split_valid_frac |-> 10,
                  split_test_frac |-> 10, attrs |-> {}, previously_split |-> FALSE,
                  split_uuid |-> NoneValue, datastore |-> FALSE, file_exists |-> FALSE,
                  df |-> NoShortlist]
    /\ rs_pc = "idle"
    /\ rs_i = 0
    /\ rs_exit = ""
    /\ pos = [s |-> 1, d |-> 1, k |-> 1]
    /\ datasets = NoList
    /\ shortlist_assays = <<>>
    /\ assay_list = NoList
    /\ split_calls = <<>>
    /\ split_uuids = EmptyDict
    /\ shortlist_rows = <<>>
    /\ uploads = <<>>

SubmitIdle ==
    /\ params = [rerun |-> FALSE, max_jobs |-> 1, nn_size_scale_factor |-> 1, cfg |-> CfgNone]
    /\ hyperparam_uuid = "none"
    /\ new_params = EmptyDict
    /\ param_combos = <<>>
    /\ assays = <<>>
    /\ datastore = EmptyDict
    /\ num_rows = EmptyDict
    /\ registry = {}
    /\ queue = 0
    /\ pc = "idle"
    /\ a = 0
    /\ c = 0
    /\ assay_params = EmptyDict
    /\ base_result_dir = <<>>
    /\ jobs_in_queue = 0
    /\ meta_gave_up = FALSE
    /\ trail = {}
    /\ submitted = <<>>
    /\ run = "none"

\* ------------------------------------------------------------------------
\* SpecRetry: each retry loop on its own
\* ------------------------------------------------------------------------

InitRetry ==
    /\ SubmitIdle
    /\ PermIdle
    /\ GridIdle
    /\ MainIdle
    /\ AssayIdle
    /\ SplitIdle
    /\ loop \in Loops
    /\ loop_pc = "try"
    /\ i = 0
    /\ attempts = 0
    /\ failures = 0
    /\ slept = 0

NextRetry ==
    \/ GetDatasetMetadataAttempt
    \/ GetDatasetMetadataSleep
    \/ ReturnSplitUuidMetadataAttempt
    \/ ReturnSplitUuidMetadataSleep
    \/ ReturnSplitUuidSplitAttempt
    \/ ReturnSplitUuidSplitSleep
    \/ SplitShortlistFetchAttempt
    \/ SplitShortlistFetchSleep
    \/ SplitShortlistUploadAttempt
    \/ SplitShortlistUploadSleep
    \/ GetShortlistDfAttempt
    \/ GetShortlistDfSleep
    \/ AlreadyRunAttempt
    \/ AlreadyRunSleep

SpecRetry == InitRetry /\ [][NextRetry]_vars

\* ------------------------------------------------------------------------
\* SpecPerm: permutate_NNlayer_combo_params on bounded inputs
\* ------------------------------------------------------------------------

InitPerm ==
    /\ SubmitIdle
    /\ RetryIdle
    /\ GridIdle
    /\ MainIdle
    /\ AssayIdle
    /\ SplitIdle
    /\ perm_args \in PermInputs \cup PermExamples
    /\ perm_result = [called |-> FALSE, raised |-> FALSE, layer_sizes |-> <<>>,
                      dropouts |-> <<>>]

Permutate ==
    /\ ~perm_result.called
    /\ perm_result' =
          LET r == permutate_NNlayer_combo_params(perm_args.layer_nums, perm_args.node_nums,
                                                  perm_args.dropout_list,
                                                  perm_args.max_final_layer_size)
          IN  [called |-> TRUE, raised |-> r.raised, layer_sizes |-> r.layer_sizes,
               dropouts |-> r.dropouts]
    /\ UNCHANGED <<perm_args, configVars, submitVars, retryVars, gridVars, mainVars, assayVars,
                 splitVars>>

NextPerm == Permutate

SpecPerm == InitPerm /\ [][NextPerm]_vars

\* ------------------------------------------------------------------------
\* SpecCombos: HyperparameterSearch.generate_param_combos on its own
\* ------------------------------------------------------------------------

InitCombos ==
    /\ RetryIdle
    /\ PermIdle
    /\ GridIdle
    /\ MainIdle
    /\ AssayIdle
    /\ SplitIdle
    /\ params \in [rerun : {FALSE}, max_jobs : {1}, nn_size_scale_factor : {1},
                   cfg : ComboConfigs({"grid", "random", "geometric", "user_specified"})]
    /\ hyperparam_uuid = "hs-first"
    /\ new_params = EmptyDict
    /\ param_combos = <<>>
    /\ assays = <<>>
    /\ datastore = EmptyDict
    /\ num_rows = EmptyDict
    /\ registry = {}
    /\ queue = 0
    /\ pc = "generate_param_combos"
    /\ a = 0
    /\ c = 0
    /\ assay_params = EmptyDict
    /\ base_result_dir = <<>>
    /\ jobs_in_queue = 0
    /\ meta_gave_up = FALSE
    /\ trail = {}
    /\ submitted = <<>>
    /\ run = "none"

\* lines 296-360
GenerateParamCombos ==
    /\ pc = "generate_param_combos"
    /\ new_params' = NewParams(params.cfg, hyperparam_uuid)
    /\ param_combos' = ParamCombos(params.cfg, params.cfg.model_type)
    /\ pc' = "generated"
    /\ UNCHANGED <<params, hyperparam_uuid, assays, datastore, num_rows, registry, queue, a, c,
                   assay_params, base_result_dir, jobs_in_queue, meta_gave_up, trail, submitted,
                   run, retryVars, sideVars>>

NextCombos == GenerateParamCombos

SpecCombos == InitCombos /\ [][NextCombos]_vars

\* ------------------------------------------------------------------------
\* SpecGrid: GridSearch.generate_combo on one numeric value
\* ------------------------------------------------------------------------

\* integral: the key is in self.convert_to_int (line 884)
GridInputs ==
    [low : (-MaxGridValue)..MaxGridValue, high : (-MaxGridValue)..MaxGridValue,
     count : 0..MaxCount, integral : BOOLEAN]

InitGrid ==
    /\ SubmitIdle
    /\ RetryIdle
    /\ PermIdle
    /\ MainIdle
    /\ AssayIdle
    /\ SplitIdle
    /\ grid_args \in GridInputs
    /\ grid_result = [called |-> FALSE, values |-> <<>>]

GridGenerateCombo ==
    /\ ~grid_result.called
    /\ grid_result' = [called |-> TRUE,
                       values |-> GridValues(grid_args.low, grid_args.high, grid_args.count,
                                             grid_args.integral)]
    /\ UNCHANGED <<grid_args, configVars, submitVars, retryVars, permVars, mainVars, assayVars,
                 splitVars>>

NextGrid == GridGenerateCombo

SpecGrid == InitGrid /\ [][NextGrid]_vars

\* ------------------------------------------------------------------------
\* SpecMain: main and HyperparameterSearch.run_search
\*
\* calls lists the constructor and the methods of hs in the order main
\* reaches them; a method that can end the process by sys.exit(1) or by an
\* uncaught exception does so nondeterministically.
\* ------------------------------------------------------------------------

SearchTypes == {"grid", "random", "geometric", "user_specified", "bayesian", ""}

\* a variant that falls back to the grid search
SearchClassDefaulting(search_type) ==
    CASE search_type = "random" -> "RandomSearch"
      [] search_type = "geometric" -> "GeometricSearch"
      [] search_type = "user_specified" -> "UserSpecifiedSearch"
      [] OTHER -> "GridSearch"

\* lines 1056-1066: the subclass the search type selects, "" for none
SearchClass(search_type) ==
    CASE search_type = "grid" -> "GridSearch"
      [] search_type = "random" -> "RandomSearch"
      [] search_type = "geometric" -> "GeometricSearch"
      [] search_type = "user_specified" -> "UserSpecifiedSearch"
      [] OTHER -> ""

InitMain ==
    /\ SubmitIdle
    /\ RetryIdle
    /\ PermIdle
    /\ GridIdle
    /\ AssayIdle
    /\ SplitIdle
    /\ main_args \in [search_type : SearchTypes, split_only : BOOLEAN, use_shortlist : BOOLEAN]
    /\ main_pc = "main"
    /\ calls = <<>>
    /\ exit_status = NotExited

MainUnchanged ==
    UNCHANGED <<main_args, configVars, submitVars, retryVars, permVars, gridVars, assayVars,
                splitVars>>

\* sys.exit(status), or an uncaught exception (status 1)
Exit(status) ==
    /\ main_pc' = "exited"
    /\ exit_status' = status

\* lines 1056-1063: hs = <subclass>(params); the constructor raises when
\* permutate_NNlayer_combo_params does (line 243)
MainConstruct ==
    /\ main_pc = "main"
    /\ SearchClass(main_args.search_type) # ""
    /\ calls' = Append(calls, SearchClass(main_args.search_type))
    /\ \/ main_pc' = "constructed" /\ UNCHANGED exit_status
       \/ Exit(1)
    /\ MainUnchanged

\* lines 1064-1066
MainIncorrectSearchType ==
    /\ main_pc = "main"
    /\ SearchClass(main_args.search_type) = ""
    /\ Exit(1)
    /\ UNCHANGED calls
    /\ MainUnchanged

\* lines 1067-1068: generate_split_shortlist returns (also early, line 617)
\* or get_shortlist_df exits (lines 680, 685)
MainSplitOnly ==
    /\ main_pc = "constructed"
    /\ main_args.split_only
    /\ calls' = Append(calls, "generate_split_shortlist")
    /\ \/ main_pc' = "returned" /\ UNCHANGED exit_status
       \/ Exit(1)
    /\ MainUnchanged

\* lines 1069-1070 and 838
RunSearchParamCombos ==
    /\ main_pc = "constructed"
    /\ ~main_args.split_only
    /\ calls' = Append(calls, "generate_param_combos")
    /\ main_pc' = "generate_assay_list"
    /\ UNCHANGED exit_status
    /\ MainUnchanged

\* line 839: generate_assay_list resolves the assays from the shortlist or
\* by return_split_uuid, and exits when that fails (lines 423, 680, 685)
RunSearchAssayList ==
    /\ main_pc = "generate_assay_list"
    /\ calls' = calls \o <<"generate_assay_list",
                            IF main_args.use_shortlist THEN "get_shortlist_df"
                                                       ELSE "return_split_uuid">>
    /\ \/ main_pc' = "submit_jobs" /\ UNCHANGED exit_status
       \/ Exit(1)
    /\ MainUnchanged

\* line 840
RunSearchSubmitJobs ==
    /\ main_pc = "submit_jobs"
    /\ calls' = Append(calls, "submit_jobs")
    /\ main_pc' = "returned"
    /\ UNCHANGED exit_status
    /\ MainUnchanged

\* lines 1073-1074: main() returned; sys.exit(0)
MainReturn ==
    /\ main_pc = "returned"
    /\ Exit(0)
    /\ UNCHANGED calls
    /\ MainUnchanged

NextMain ==
    \/ MainConstruct
    \/ MainIncorrectSearchType
    \/ MainSplitOnly
    \/ RunSearchParamCombos
    \/ RunSearchAssayList
    \/ RunSearchSubmitJobs
    \/ MainReturn

SpecMain == InitMain /\ [][NextMain]_vars

\* ------------------------------------------------------------------------
\* SpecAssays: HyperparameterSearch.generate_assay_list, get_shortlist_df
\* and generate_split_shortlist
\*
\* rs_args holds what the three methods read:
\*   method            the method called
\*   use_shortlist, dataset_key, bucket, previously_split, split_uuid,
\*   datastore         parameters (attrs: the attributes params has)
\*   splitter          the declared splitters, in order (a str is the list
\*                     of itself, lines 411-414 and 701-704)
\*   split_valid_frac, split_test_frac   in percent
\*   file_exists       os.path.exists(shortlist_key)
\*   df                the shortlist table: names is the column of line
\*       686-692 in row order, bucket_col the bucket column it has ("" for
\*       none) and buckets its values, split_cols the split columns it has
\*       and uuids, per row, the value of such a column; fetched is what the
\*       datastore returns for it (the table, or None)
\* return_split_uuid is an external call with three outcomes: the id of the
\* split it saved, None (line 591, after the retry ceiling) or an exception
\* raised outside its retry loops.
\* ------------------------------------------------------------------------

\* the retry ceiling of lines 611, 644, 679
RetryCeiling == 5

\* x.strip()
Strip(x) == [x EXCEPT !.padded = FALSE]

\* a variant that leaves the white space
StripNothing(x) == x

\* an object with a strip method: a str
HasStrip(x) == ~x.none

\* the ids return_split_uuid returns, by the number of the call
UuidNames ==
    <<"uuid1", "uuid2", "uuid3", "uuid4", "uuid5", "uuid6", "uuid7", "uuid8", "uuid9",
      "uuid10", "uuid11", "uuid12", "uuid13">>

\* "%s_%d_%d" % (splitter, valid * 100, test * 100): the name of a split
\* column; a splitter with white space around it names no column of a table
SplitName(splitter, valid, test) ==
    IF splitter.padded THEN "other"
    ELSE CASE <<splitter.text, valid, test>> = <<"random", 10, 10>> -> "random_10_10"
           [] <<splitter.text, valid, test>> = <<"random", 10, 20>> -> "random_10_20"
           [] <<splitter.text, valid, test>> = <<"random", 20, 20>> -> "random_20_20"
           [] <<splitter.text, valid, test>> = <<"scaffold", 10, 10>> -> "scaffold_10_10"
           [] <<splitter.text, valid, test>> = <<"scaffold", 10, 20>> -> "scaffold_10_20"
           [] <<splitter.text, valid, test>> = <<"scaffold", 20, 20>> -> "scaffold_20_20"
           [] OTHER -> "other"

\* lines 623-624: the splitters and split combinations, in loop order
SplitCombos ==
    <<[splitter |-> Str("random"), split_combo |-> <<10, 10>>],
      [splitter |-> Str("random"), split_combo |-> <<10, 20>>],
      [splitter |-> Str("random"), split_combo |-> <<20, 20>>],
      [splitter |-> Str("scaffold"), split_combo |-> <<10, 10>>],
      [splitter |-> Str("scaffold"), split_combo |-> <<10, 20>>],
      [splitter |-> Str("scaffold"), split_combo |-> <<20, 20>>]>>

\* the failed calls of return_split_uuid one behaviour holds at most
MaxSplitFailures == 2

\* list(zip(xs, ys))
Zip(xs, ys) ==
    [n \in 1..(IF Len(xs) <= Len(ys) THEN Len(xs) ELSE Len(ys)) |-> <<xs[n], ys[n]>>]

\* line 698: the bucket column of the table, or its place taken by the
\* one-element list [self.params.bucket]
BucketList(args) == IF args.df.bucket_col # "" THEN args.df.buckets ELSE <<args.bucket>>

\* lines 693-699: datasets, stripped
ShortlistDatasets(args) ==
    LET zipped == Zip(args.df.names, BucketList(args))
    IN  [n \in 1..Len(zipped) |-> <<Strip(zipped[n][1]), Strip(zipped[n][2])>>]

\* a variant that looks at the flag only
PreviouslySplitFlagOnly(args) == args.previously_split

\* lines 417-418
PreviouslySplit(args) ==
    /\ "previously_split" \in args.attrs
    /\ "split_uuid" \in args.attrs
    /\ args.previously_split
    /\ ~args.split_uuid.none

\* one call of return_split_uuid: its arguments (None for one left out) and
\* what came of it
SplitCall(dataset_key, bucket, splitter, split_combo, outcome) ==
    [dataset_key |-> dataset_key, bucket |-> bucket, splitter |-> splitter,
     split_combo |-> split_combo, outcome |-> outcome]

SplitOutcomes == {"id", "none", "raise"}

SplitFailures == Cardinality({n \in 1..Len(split_calls) : split_calls[n].outcome # "id"})

SplitOutcomeAllowed(outcome) ==
    /\ outcome # "id" => SplitFailures < MaxSplitFailures
    /\ Len(split_calls) < Len(UuidNames)

\* the value return_split_uuid returns to a call that does not raise
SplitResult(outcome) ==
    IF outcome = "id" THEN Str(UuidNames[Len(split_calls) + 1]) ELSE NoneValue

ShortlistTables ==
    {[names |-> names, bucket_col |-> bucket_col,
      buckets |-> [n \in 1..Len(names) |-> IF n = 1 THEN Padded("bk1") ELSE Str("bk2")],
      split_cols |-> split_cols,
      uuids |-> [n \in 1..Len(names) |->
                    IF n = 1 THEN Str("pre1") ELSE IF gap THEN NaN ELSE Padded("pre2")],
      fetched |-> fetched] :
        names \in {<<Padded("ds1")>>, <<Padded("ds1"), Str("ds2")>>},
        bucket_col \in {"bucket", "bucket_name", ""},
        split_cols \in {{}, {"scaffold_10_10"}},
        gap \in BOOLEAN,
        fetched \in {"df", "None"}}

SplitterChoices ==
    {<<Str("scaffold")>>, <<Str("random"), Str("scaffold")>>, <<Str("scaffold"), Padded("random")>>}

AssayArgs ==
    [method : {"generate_assay_list", "generate_split_shortlist"},
     use_shortlist : BOOLEAN,
     dataset_key : {Str("ds0"), Padded("ds0")},
     bucket : {Str("bk0")},
     splitter : SplitterChoices,
     split_valid_frac : {10},
     split_test_frac : {10},
     attrs : {{"previously_split", "split_uuid"}, {"previously_split"}},
     previously_split : BOOLEAN,
     split_uuid : {NoneValue, Padded("su0")},
     datastore : BOOLEAN,
     file_exists : BOOLEAN,
     df : ShortlistTables]

\* the arguments that differ in something the method called reads
AssayInputs ==
    {args \in AssayArgs :
        /\ args.method = "generate_split_shortlist" =>
              /\ args.use_shortlist
              /\ args.splitter = <<Str("scaffold")>>
              /\ args.df.split_cols = {}
        /\ args.use_shortlist =>
              /\ args.dataset_key = Str("ds0")
              /\ args.attrs = {"previously_split", "split_uuid"}
              /\ ~args.previously_split
              /\ args.split_uuid = NoneValue
              /\ args.datastore => args.file_exists
              /\ ~args.datastore => args.df.fetched = "df"
              /\ args.df.split_cols = {} => ~(args.df.uuids[Len(args.df.uuids)] = NaN)
        /\ ~args.use_shortlist =>
              /\ args.datastore
              /\ args.file_exists
              /\ args.df = [names |-> <<Padded("ds1")>>, bucket_col |-> "bucket",
                            buckets |-> <<Padded("bk1")>>, split_cols |-> {},
                            uuids |-> <<Str("pre1")>>, fetched |-> "df"]
              /\ "split_uuid" \notin args.attrs =>
                    args.previously_split /\ args.split_uuid = NoneValue}

InitAssays ==
    /\ SubmitIdle
    /\ SplitIdle
    /\ RetryIdle
    /\ PermIdle
    /\ GridIdle
    /\ MainIdle
    /\ rs_args \in AssayInputs
    /\ rs_pc = "start"
    /\ rs_i = 0
    /\ rs_exit = ""
    /\ pos = [s |-> 1, d |-> 1, k |-> 1]
    /\ datasets = NoList
    /\ shortlist_assays = <<>>
    /\ assay_list = NoList
    /\ split_calls = <<>>
    /\ split_uuids = EmptyDict
    /\ shortlist_rows = <<>>
    /\ uploads = <<>>

AssayOthersUnchanged ==
    UNCHANGED <<configVars, submitVars, retryVars, permVars, gridVars, mainVars, splitVars>>

\* sys.exit(1), or an exception nothing catches
AssayExit(how) ==
    /\ rs_pc' = "exited"
    /\ rs_exit' = how

\* lines 410-415: the default mode starts with an empty list
GenerateAssayListDefault ==
    /\ rs_pc = "start"
    /\ rs_args.method = "generate_assay_list"
    /\ ~rs_args.use_shortlist
    /\ assay_list' = ListOf(<<>>)
    /\ pos' = [pos EXCEPT !.s = 1]
    /\ rs_pc' = "splitters"
    /\ UNCHANGED <<rs_args, rs_i, rs_exit, datasets, shortlist_assays, split_calls, split_uuids,
                   shortlist_rows, uploads>>
    /\ AssayOthersUnchanged

\* line 428: the shortlist mode calls get_shortlist_df(split_uuids=True)
GenerateAssayListShortlist ==
    /\ rs_pc = "start"
    /\ rs_args.method = "generate_assay_list"
    /\ rs_args.use_shortlist
    /\ rs_i' = 0
    /\ rs_pc' = "get_shortlist_df"
    /\ UNCHANGED <<rs_args, rs_exit, pos, datasets, shortlist_assays, assay_list, split_calls,
                   split_uuids, shortlist_rows, uploads>>
    /\ AssayOthersUnchanged

\* lines 417-419: the configured split is taken, no call is made
DefaultReuse ==
    /\ rs_pc = "splitters"
    /\ pos.s <= Len(rs_args.splitter)
    /\ PreviouslySplit(rs_args)
    /\ assay_list' = ListOf(Append(assay_list.items,
                                   <<rs_args.dataset_key, rs_args.bucket,
                                     rs_args.splitter[pos.s], rs_args.split_uuid>>))
    /\ pos' = [pos EXCEPT !.s = pos.s + 1]
    /\ UNCHANGED <<rs_args, rs_pc, rs_i, rs_exit, datasets, shortlist_assays, split_calls,
                   split_uuids, shortlist_rows, uploads>>
    /\ AssayOthersUnchanged

\* lines 421-426: return_split_uuid(dataset_key, splitter=splitter); what it
\* returns is appended, an exception ends the process
DefaultSplit ==
    /\ rs_pc = "splitters"
    /\ pos.s <= Len(rs_args.splitter)
    /\ ~PreviouslySplit(rs_args)
    /\ \E outcome \in SplitOutcomes :
          /\ SplitOutcomeAllowed(outcome)
          /\ split_calls' = Append(split_calls,
                                   SplitCall(rs_args.dataset_key, NoneValue,
                                             rs_args.splitter[pos.s], <<>>, outcome))
          /\ IF outcome = "raise"
             THEN /\ AssayExit("sys.exit")
                  /\ UNCHANGED <<assay_list, pos>>
             ELSE /\ assay_list' = ListOf(Append(assay_list.items,
                                                 <<rs_args.dataset_key, rs_args.bucket,
                                                   rs_args.splitter[pos.s],
                                                   SplitResult(outcome)>>))
                  /\ pos' = [pos EXCEPT !.s = pos.s + 1]
                  /\ UNCHANGED <<rs_pc, rs_exit>>
    /\ UNCHANGED <<rs_args, rs_i, datasets, shortlist_assays, split_uuids, shortlist_rows,
                   uploads>>
    /\ AssayOthersUnchanged

DefaultLoopEnd ==
    /\ rs_pc = "splitters"
    /\ pos.s > Len(rs_args.splitter)
    /\ rs_pc' = "strip"
    /\ UNCHANGED <<rs_args, rs_i, rs_exit, pos, datasets, shortlist_assays, assay_list,
                   split_calls, split_uuids, shortlist_rows, uploads>>
    /\ AssayOthersUnchanged

\* line 430: every field of every assay stripped; None is not iterable, and
\* a field that is not a str has no strip
StripAssays ==
    /\ rs_pc = "strip"
    /\ IF assay_list.none
       THEN /\ AssayExit("TypeError")
            /\ UNCHANGED assay_list
       ELSE IF \E n \in 1..Len(assay_list.items) : \E f \in 1..4 :
                   ~HasStrip(assay_list.items[n][f])
       THEN /\ AssayExit("AttributeError")
            /\ UNCHANGED assay_list
       ELSE /\ assay_list' = ListOf([n \in 1..Len(assay_list.items) |->
                                        [f \in 1..4 |-> Strip(assay_list.items[n][f])]])
            /\ rs_pc' = "done"
            /\ UNCHANGED rs_exit
    /\ UNCHANGED <<rs_args, rs_i, pos, datasets, shortlist_assays, split_calls, split_uuids,
                   shortlist_rows, uploads>>
    /\ AssayOthersUnchanged

\* what get_shortlist_df returns goes to self.assays (line 428) or to
\* datasets (line 620)
ShortlistReturns(value) ==
    IF rs_args.method = "generate_assay_list"
    THEN /\ assay_list' = value
         /\ rs_pc' = "strip"
         /\ UNCHANGED <<datasets, pos>>
    ELSE /\ datasets' = value
         /\ pos' = [pos EXCEPT !.d = 1, !.k = 1]
         /\ rs_pc' = "rows"
         /\ UNCHANGED assay_list

\* lines 672-676 and 684-685: the datastore returns the table, or None
ShortlistFetched ==
    /\ rs_pc = "get_shortlist_df"
    /\ rs_args.datastore
    /\ IF rs_args.df.fetched = "None"
       THEN AssayExit("sys.exit")
       ELSE rs_pc' = "datasets" /\ UNCHANGED rs_exit
    /\ UNCHANGED <<rs_args, rs_i, pos, datasets, shortlist_assays, assay_list, split_calls,
                   split_uuids, shortlist_rows, uploads>>
    /\ AssayOthersUnchanged

\* lines 677-680: the call raised, another attempt after a sleep
ShortlistFetchRetry ==
    /\ rs_pc = "get_shortlist_df"
    /\ rs_args.datastore
    /\ rs_i < RetryCeiling
    /\ rs_i' = rs_i + 1
    /\ UNCHANGED <<rs_args, rs_pc, rs_exit, pos, datasets, shortlist_assays, assay_list,
                   split_calls, split_uuids, shortlist_rows, uploads>>
    /\ AssayOthersUnchanged

\* lines 681-683: the call raised at the ceiling
ShortlistFetchExit ==
    /\ rs_pc = "get_shortlist_df"
    /\ rs_args.datastore
    /\ rs_i = RetryCeiling
    /\ AssayExit("sys.exit")
    /\ UNCHANGED <<rs_args, rs_i, pos, datasets, shortlist_assays, assay_list, split_calls,
                   split_uuids, shortlist_rows, uploads>>
    /\ AssayOthersUnchanged

\* lines 685-687: a shortlist file that does not exist
ShortlistFileMissing ==
    /\ rs_pc = "get_shortlist_df"
    /\ ~rs_args.datastore
    /\ ~rs_args.file_exists
    /\ ShortlistReturns(NoList)
    /\ UNCHANGED <<rs_args, rs_i, rs_exit, shortlist_assays, split_calls, split_uuids,
                   shortlist_rows, uploads>>
    /\ AssayOthersUnchanged

\* line 688
ShortlistFileRead ==
    /\ rs_pc = "get_shortlist_df"
    /\ ~rs_args.datastore
    /\ rs_args.file_exists
    /\ rs_pc' = "datasets"
    /\ UNCHANGED <<rs_args, rs_i, rs_exit, pos, datasets, shortlist_assays, assay_list,
                   split_calls, split_uuids, shortlist_rows, uploads>>
    /\ AssayOthersUnchanged

\* lines 691-706: datasets built; returned as they are unless split ids are
\* asked for
BuildDatasets ==
    /\ rs_pc = "datasets"
    /\ IF rs_args.method = "generate_assay_list"
       THEN /\ datasets' = ListOf(ShortlistDatasets(rs_args))
            /\ shortlist_assays' = <<>>
            /\ pos' = [pos EXCEPT !.s = 1, !.d = 1]
            /\ rs_pc' = "shortlist_splitters"
            /\ UNCHANGED assay_list
       ELSE /\ ShortlistReturns(ListOf(ShortlistDatasets(rs_args)))
            /\ UNCHANGED shortlist_assays
    /\ UNCHANGED <<rs_args, rs_i, rs_exit, split_calls, split_uuids, shortlist_rows, uploads>>
    /\ AssayOthersUnchanged

SplitColumn == SplitName(rs_args.splitter[pos.s], rs_args.split_valid_frac, rs_args.split_test_frac)

\* lines 708-711: the table has the split column; datasets[i] for every row
\* i of the table (IndexError past the end of datasets)
ShortlistPrecomputed ==
    /\ rs_pc = "shortlist_splitters"
    /\ pos.s <= Len(rs_args.splitter)
    /\ SplitColumn \in rs_args.df.split_cols
    /\ IF Len(rs_args.df.names) > Len(datasets.items)
       THEN /\ AssayExit("IndexError")
            /\ UNCHANGED <<shortlist_assays, pos>>
       ELSE /\ shortlist_assays' =
                   shortlist_assays \o
                   [n \in 1..Len(rs_args.df.names) |->
                       <<datasets.items[n][1], datasets.items[n][2],
                         rs_args.splitter[pos.s], rs_args.df.uuids[n]>>]
            /\ pos' = [pos EXCEPT !.s = pos.s + 1]
            /\ UNCHANGED <<rs_pc, rs_exit>>
    /\ UNCHANGED <<rs_args, rs_i, datasets, assay_list, split_calls, split_uuids,
                   shortlist_rows, uploads>>
    /\ AssayOthersUnchanged

\* lines 713-722: return_split_uuid(assay, bucket) for one dataset: no
\* splitter is passed; a dataset whose call raised is skipped
ShortlistSplit ==
    /\ rs_pc = "shortlist_splitters"
    /\ pos.s <= Len(rs_args.splitter)
    /\ SplitColumn \notin rs_args.df.split_cols
    /\ pos.d <= Len(datasets.items)
    /\ \E outcome \in SplitOutcomes :
          /\ SplitOutcomeAllowed(outcome)
          /\ split_calls' = Append(split_calls,
                                   SplitCall(datasets.items[pos.d][1], datasets.items[pos.d][2],
                                             NoneValue, <<>>, outcome))
          /\ shortlist_assays' =
                 IF outcome = "raise" THEN shortlist_assays
                 ELSE Append(shortlist_assays,
                             <<datasets.items[pos.d][1], datasets.items[pos.d][2],
                               rs_args.splitter[pos.s], SplitResult(outcome)>>)
    /\ pos' = [pos EXCEPT !.d = pos.d + 1]
    /\ UNCHANGED <<rs_args, rs_pc, rs_i, rs_exit, datasets, assay_list, split_uuids,
                   shortlist_rows, uploads>>
    /\ AssayOthersUnchanged

\* the loop of line 713 is through: the next splitter
ShortlistNextSplitter ==
    /\ rs_pc = "shortlist_splitters"
    /\ pos.s <= Len(rs_args.splitter)
    /\ SplitColumn \notin rs_args.df.split_cols
    /\ pos.d > Len(datasets.items)
    /\ pos' = [pos EXCEPT !.s = pos.s + 1, !.d = 1]
    /\ UNCHANGED <<rs_args, rs_pc, rs_i, rs_exit, datasets, shortlist_assays, assay_list,
                   split_calls, split_uuids, shortlist_rows, uploads>>
    /\ AssayOthersUnchanged

\* line 723
ShortlistReturnAssays ==
    /\ rs_pc = "shortlist_splitters"
    /\ pos.s > Len(rs_args.splitter)
    /\ assay_list' = ListOf(shortlist_assays)
    /\ rs_pc' = "strip"
    /\ UNCHANGED <<rs_args, rs_i, rs_exit, pos, datasets, shortlist_assays, split_calls,
                   split_uuids, shortlist_rows, uploads>>
    /\ AssayOthersUnchanged

\* lines 603-607: the metadata of the shortlist retrieved
SplitShortlistFetched ==
    /\ rs_pc = "start"
    /\ rs_args.method = "generate_split_shortlist"
    /\ rs_i' = 0
    /\ rs_pc' = "get_shortlist_df"
    /\ UNCHANGED <<rs_args, rs_exit, pos, datasets, shortlist_assays, assay_list, split_calls,
                   split_uuids, shortlist_rows, uploads>>
    /\ AssayOthersUnchanged

\* lines 608-613
SplitShortlistFetchRetry ==
    /\ rs_pc = "start"
    /\ rs_args.method = "generate_split_shortlist"
    /\ rs_i < RetryCeiling
    /\ rs_i' = rs_i + 1
    /\ UNCHANGED <<rs_args, rs_pc, rs_exit, pos, datasets, shortlist_assays, assay_list,
                   split_calls, split_uuids, shortlist_rows, uploads>>
    /\ AssayOthersUnchanged

\* lines 614-617: return None
SplitShortlistFetchGiveUp ==
    /\ rs_pc = "start"
    /\ rs_args.method = "generate_split_shortlist"
    /\ rs_i = RetryCeiling
    /\ rs_pc' = "returned"
    /\ UNCHANGED <<rs_args, rs_i, rs_exit, pos, datasets, shortlist_assays, assay_list,
                   split_calls, split_uuids, shortlist_rows, uploads>>
    /\ AssayOthersUnchanged

\* line 622 on datasets = None
RowsNotIterable ==
    /\ rs_pc = "rows"
    /\ datasets.none
    /\ AssayExit("TypeError")
    /\ UNCHANGED <<rs_args, rs_i, pos, datasets, shortlist_assays, assay_list, split_calls,
                   split_uuids, shortlist_rows, uploads>>
    /\ AssayOthersUnchanged

\* line 623: the row of a dataset before its first split
RowStart(dataset) ==
    [key \in {"dataset_key", "bucket"} |-> IF key = "dataset_key" THEN dataset[1] ELSE dataset[2]]

\* lines 624-633: one split of one dataset; a call that raised leaves None
RowsSplit ==
    /\ rs_pc = "rows"
    /\ ~datasets.none
    /\ pos.d <= Len(datasets.items)
    /\ pos.k <= Len(SplitCombos)
    /\ \E outcome \in SplitOutcomes :
          LET dataset == datasets.items[pos.d]
              combo   == SplitCombos[pos.k]
              row     == IF pos.k = 1 THEN RowStart(dataset) ELSE split_uuids
          IN  /\ SplitOutcomeAllowed(outcome)
              /\ split_calls' = Append(split_calls,
                                       SplitCall(dataset[1], dataset[2], combo.splitter,
                                                 combo.split_combo, outcome))
              /\ split_uuids' =
                     DictSet(row,
                             SplitName(combo.splitter, combo.split_combo[1],
                                       combo.split_combo[2]),
                             SplitResult(outcome))
    /\ pos' = [pos EXCEPT !.k = pos.k + 1]
    /\ UNCHANGED <<rs_args, rs_pc, rs_i, rs_exit, datasets, shortlist_assays, assay_list,
                   shortlist_rows, uploads>>
    /\ AssayOthersUnchanged

\* line 634
RowsAppend ==
    /\ rs_pc = "rows"
    /\ ~datasets.none
    /\ pos.d <= Len(datasets.items)
    /\ pos.k > Len(SplitCombos)
    /\ shortlist_rows' = Append(shortlist_rows, split_uuids)
    /\ pos' = [pos EXCEPT !.d = pos.d + 1, !.k = 1]
    /\ UNCHANGED <<rs_args, rs_pc, rs_i, rs_exit, datasets, shortlist_assays, assay_list,
                   split_calls, split_uuids, uploads>>
    /\ AssayOthersUnchanged

\* lines 635-641
RowsEnd ==
    /\ rs_pc = "rows"
    /\ ~datasets.none
    /\ pos.d > Len(datasets.items)
    /\ rs_i' = 0
    /\ rs_pc' = "upload"
    /\ UNCHANGED <<rs_args, rs_exit, pos, datasets, shortlist_assays, assay_list, split_calls,
                   split_uuids, shortlist_rows, uploads>>
    /\ AssayOthersUnchanged

\* lines 644-652: the table stored
Uploaded ==
    /\ rs_pc = "upload"
    /\ uploads' = Append(uploads, shortlist_rows)
    /\ rs_pc' = "returned"
    /\ UNCHANGED <<rs_args, rs_i, rs_exit, pos, datasets, shortlist_assays, assay_list,
                   split_calls, split_uuids, shortlist_rows>>
    /\ AssayOthersUnchanged

\* lines 653-657
UploadRetry ==
    /\ rs_pc = "upload"
    /\ rs_i < RetryCeiling
    /\ rs_i' = rs_i + 1
    /\ UNCHANGED <<rs_args, rs_pc, rs_exit, pos, datasets, shortlist_assays, assay_list,
                   split_calls, split_uuids, shortlist_rows, uploads>>
    /\ AssayOthersUnchanged

\* lines 658-661: the loop left without the table stored
UploadGiveUp ==
    /\ rs_pc = "upload"
    /\ rs_i = RetryCeiling
    /\ rs_pc' = "returned"
    /\ UNCHANGED <<rs_args, rs_i, rs_exit, pos, datasets, shortlist_assays, assay_list,
                   split_calls, split_uuids, shortlist_rows, uploads>>
    /\ AssayOthersUnchanged

NextAssays ==
    \/ GenerateAssayListDefault
    \/ GenerateAssayListShortlist
    \/ DefaultReuse
    \/ DefaultSplit
    \/ DefaultLoopEnd
    \/ StripAssays
    \/ ShortlistFetched
    \/ ShortlistFetchRetry
    \/ ShortlistFetchExit
    \/ ShortlistFileMissing
    \/ ShortlistFileRead
    \/ BuildDatasets
    \/ ShortlistPrecomputed
    \/ ShortlistSplit
    \/ ShortlistNextSplitter
    \/ ShortlistReturnAssays
    \/ SplitShortlistFetched
    \/ SplitShortlistFetchRetry
    \/ SplitShortlistFetchGiveUp
    \/ RowsNotIterable
    \/ RowsSplit
    \/ RowsAppend
    \/ RowsEnd
    \/ Uploaded
    \/ UploadRetry
    \/ UploadGiveUp

SpecAssays == InitAssays /\ [][NextAssays]_vars

\* ------------------------------------------------------------------------
\* Spec: HyperparameterSearch.submit_jobs
\* ------------------------------------------------------------------------

Init ==
    /\ RetryIdle
    /\ PermIdle
    /\ GridIdle
    /\ MainIdle
    /\ AssayIdle
    /\ SplitIdle
    /\ params \in [rerun : BOOLEAN, max_jobs : 1..MaxJobsCap,
                   nn_size_scale_factor : {1, 2}, cfg : Configs]
    /\ hyperparam_uuid = "hs-first"
    /\ new_params = NewParams(params.cfg, hyperparam_uuid)
    /\ param_combos = ParamCombos(params.cfg, params.cfg.model_type)
    /\ assays \in AssayLists
    /\ datastore \in Datastores
    /\ num_rows = EmptyDict
    /\ registry = {}
    /\ queue = 0
    /\ pc = "for_assay"
    /\ a = 1
    /\ c = 0
    /\ assay_params = EmptyDict
    /\ base_result_dir = <<>>
    /\ jobs_in_queue = 0
    /\ meta_gave_up = FALSE
    /\ trail = {}
    /\ submitted = <<>>
    /\ run = "first"

\* the loop variables once the caller has read the outcome of a loop
LoopLeave ==
    /\ loop' = "none"
    /\ loop_pc' = "idle"
    /\ i' = 0
    /\ attempts' = 0
    /\ failures' = 0
    /\ slept' = 0

\* a variant that stays on the candidate
NextCandidateStaying ==
    IF param_combos = <<>>
    THEN pc' = "for_assay" /\ UNCHANGED <<a, c>>
    ELSE pc' = "for_combo" /\ UNCHANGED <<a, c>>

\* a variant in which `continue` falls through to the next statement
NextCandidateFallThrough == pc' = "dup_check" /\ UNCHANGED <<a, c>>

\* `continue`, or the end of the body: on to the next combination, or to
\* the next assay when no combination is configured (lines 755-766)
NextCandidate ==
    IF param_combos = <<>>
    THEN a' = a + 1 /\ pc' = "for_assay" /\ UNCHANGED c
    ELSE c' = c + 1 /\ pc' = "for_combo" /\ UNCHANGED a

\* i of lines 783-787 is not read again before line 783 or 787 assigns
\* it: the model forgets the count once the program has acted on it
ForgetQueueCount == jobs_in_queue' = 0

\* where a candidate goes that passed both checks: the throttle of lines
\* 783-787, which the branch without combinations (lines 763-766) lacks
AfterChecks == IF param_combos = <<>> THEN "run_command" ELSE "poll"

\* line 739: the list of assays is exhausted
AssayLoopEnd ==
    /\ pc = "for_assay"
    /\ a > Len(assays)
    /\ pc' = "done"
    /\ UNCHANGED <<num_rows, registry, queue, a, c, assay_params, base_result_dir,
                   jobs_in_queue, meta_gave_up, trail, submitted, run>>
    /\ UNCHANGED <<configVars, retryVars, sideVars>>

\* lines 739-749: the per-assay base, then the call of get_dataset_metadata
AssayLoopNext ==
    /\ pc = "for_assay"
    /\ a <= Len(assays)
    /\ assay_params' = AssayBase(new_params, assays[a])
    /\ meta_gave_up' = FALSE
    /\ trail' = {}
    /\ LoopStart("get_dataset_metadata")
    /\ pc' = "get_dataset_metadata"
    /\ UNCHANGED <<num_rows, registry, queue, a, c, base_result_dir, jobs_in_queue,
                   submitted, run>>
    /\ UNCHANGED <<configVars, sideVars>>

\* get_dataset_metadata, lines 461-479, of what the model keeps of a record:
\* nothing is merged when the fetch gave up (return None, line 460)
MetadataMerged(record, fetched, uuid) ==
    IF fetched
    THEN DictUpdate(record, [dataset_name    |-> SplitRstrip(record["dataset_key"]),
                             hyperparam_uuid |-> uuid])
    ELSE record

\* lines 476-477
NumRowsMerged(rows, record, fetched, metadata) ==
    IF fetched /\ "num_row" \in DOMAIN metadata
    THEN DictSet(rows, record["dataset_key"], metadata["num_row"])
    ELSE rows

\* what submit_jobs does after get_dataset_metadata returns without an
\* exception (lines 754-755, 768): both outcomes of the fetch come here
GetDatasetMetadataReturn ==
    /\ pc = "get_dataset_metadata"
    /\ loop_pc \in {"ok", "gave_up"}
    /\ LET fetched == loop_pc = "ok"
           merged  == MetadataMerged(assay_params, fetched, hyperparam_uuid)
       IN  /\ assay_params' = merged
           /\ num_rows' = NumRowsMerged(num_rows, assay_params, fetched,
                                        datastore[assay_params["dataset_key"]])
           /\ meta_gave_up' = ~fetched
           /\ base_result_dir' = merged["result_dir"] \o <<merged["dataset_name"]>>
    /\ IF param_combos = <<>>
       THEN pc' = "filter" /\ c' = 0
       ELSE pc' = "for_combo" /\ c' = 1
    /\ trail' = {}
    /\ LoopLeave
    /\ UNCHANGED <<registry, queue, a, jobs_in_queue, submitted, run>>
    /\ UNCHANGED <<configVars, sideVars>>

\* line 768: the combinations are exhausted, on to the next assay
ComboLoopEnd ==
    /\ pc = "for_combo"
    /\ c > Len(param_combos)
    /\ a' = a + 1
    /\ pc' = "for_assay"
    /\ UNCHANGED <<num_rows, registry, queue, c, assay_params, base_result_dir,
                   jobs_in_queue, meta_gave_up, trail, submitted, run>>
    /\ UNCHANGED <<configVars, retryVars, sideVars>>

\* lines 768-775: the next combination written into the working record
ComboLoopNext ==
    /\ pc = "for_combo"
    /\ c <= Len(param_combos)
    /\ assay_params' = OverlayCombo(assay_params, param_combos[c])
    /\ trail' = {}
    /\ pc' = "filter"
    /\ UNCHANGED <<num_rows, registry, queue, a, c, base_result_dir, jobs_in_queue,
                   meta_gave_up, submitted, run>>
    /\ UNCHANGED <<configVars, retryVars, sideVars>>

\* lines 776-780 (756-760): the size filter; None * nn_size_scale_factor
\* raises TypeError, which nothing catches
SizeFilter ==
    /\ pc = "filter"
    /\ IF FilterApplies(assay_params, num_rows)
       THEN LET num_params == get_num_params(assay_params)
            IN  IF num_params.none
                THEN /\ pc' = "crashed"
                     /\ trail' = trail \cup {"filtered"}
                     /\ UNCHANGED <<a, c>>
                ELSE IF TooManyParams(num_params.n, params.nn_size_scale_factor,
                                      num_rows[assay_params["dataset_key"]])
                THEN /\ trail' = trail \cup {"filtered", "filter_rejected"}
                     /\ NextCandidate
                ELSE /\ trail' = trail \cup {"filtered"}
                     /\ pc' = "dup_check"
                     /\ UNCHANGED <<a, c>>
       ELSE /\ trail' = trail \cup {"filtered"}
            /\ pc' = "dup_check"
            /\ UNCHANGED <<a, c>>
    /\ UNCHANGED <<num_rows, registry, queue, assay_params, base_result_dir, jobs_in_queue,
                   meta_gave_up, submitted, run>>
    /\ UNCHANGED <<configVars, retryVars, sideVars>>

\* line 781 (761), `not self.params.rerun and self.already_run(...)`:
\* already_run is called only when rerun is not set
DupCheck ==
    /\ pc = "dup_check"
    /\ IF params.rerun
       THEN /\ pc' = AfterChecks
            /\ UNCHANGED <<trail, retryVars>>
       ELSE /\ LoopStart("already_run")
            /\ pc' = "already_run"
            /\ trail' = trail \cup {"queried"}
    /\ UNCHANGED <<num_rows, registry, queue, a, c, assay_params, base_result_dir,
                   jobs_in_queue, meta_gave_up, submitted, run>>
    /\ UNCHANGED <<configVars, sideVars>>

\* a variant that never reports a model
AlreadyRunNever(outcome, models) == FALSE

\* a variant that takes a query that gave up for a model found
AlreadyRunUnlessAnswered(outcome, models) == outcome = "gave_up" \/ models # {}

\* already_run, lines 819-823: False when the query gave up, else whether
\* the tracker returned a model
AlreadyRunResult(outcome, models) == outcome = "ok" /\ models # {}

\* line 781-782: a candidate that has been run is skipped
AlreadyRunReturn ==
    /\ pc = "already_run"
    /\ loop_pc \in {"ok", "gave_up"}
    /\ LET models == TrackerGetMetadata(FilterDict(assay_params),
                                        assay_params["collection_name"], registry)
       IN  IF AlreadyRunResult(loop_pc, models)
           THEN /\ trail' = trail \cup {"dup_rejected"}
                /\ NextCandidate
           ELSE /\ trail' = trail \cup (IF loop_pc = "gave_up" THEN {"query_gave_up"} ELSE {})
                /\ pc' = AfterChecks
                /\ UNCHANGED <<a, c>>
    /\ LoopLeave
    /\ UNCHANGED <<num_rows, registry, queue, assay_params, base_result_dir, jobs_in_queue,
                   meta_gave_up, submitted, run>>
    /\ UNCHANGED <<configVars, sideVars>>

\* a variant that lets a queue of exactly max_jobs jobs pass
ThrottledAbove(n, max_jobs) == n > max_jobs

\* line 784: the queue is full
Throttled(n, max_jobs) == n >= max_jobs

\* lines 783, 787: `squeue | grep $(whoami) | wc -l`
Poll ==
    /\ pc = "poll"
    /\ jobs_in_queue' = queue
    /\ trail' = trail \cup {"polled"}
    /\ pc' = IF Throttled(queue, params.max_jobs) THEN "sleep" ELSE "run_command"
    /\ UNCHANGED <<num_rows, registry, queue, a, c, assay_params, base_result_dir,
                   meta_gave_up, submitted, run>>
    /\ UNCHANGED <<configVars, retryVars, sideVars>>

\* lines 785-786: `time.sleep(60)`, then the next poll
ThrottleSleep ==
    /\ pc = "sleep"
    /\ trail' = trail \cup {"slept"}
    /\ pc' = "poll"
    /\ ForgetQueueCount
    /\ UNCHANGED <<num_rows, registry, queue, a, c, assay_params, base_result_dir,
                   meta_gave_up, submitted, run>>
    /\ UNCHANGED <<configVars, retryVars, sideVars>>

\* The queue changes under the program at any time: jobs of the user end,
\* the user submits jobs from elsewhere, and sbatch adds the job handed to
\* it or fails.  The model tracks the count where the program can tell, from
\* the first poll for a candidate to its submission, where JobLeavesQueue and
\* OtherSubmitter take it from any value to any other; outside it keeps 0.
QueueWatched == {"poll", "sleep", "run_command"}

QueueUntracked == queue' = 0

\* line 788 (763): the job's own result directory, str(uuid.uuid4()) a
\* name no earlier job has
JobResultDir(base, jobs) == base \o <<ToString(Len(jobs) + 1)>>

\* lines 788-791 (763-766): the record is handed to run_command, whatever
\* sbatch does with it: os.system's status is not looked at
RunCommand ==
    /\ pc = "run_command"
    /\ LET record == DictSet(assay_params, "result_dir",
                             JobResultDir(base_result_dir, submitted))
       IN  /\ assay_params' = record
           /\ submitted' = Append(submitted, [a |-> a, c |-> c, run |-> run,
                                              params |-> record])
    /\ QueueUntracked
    /\ trail' = trail \cup {"submitted"}
    /\ NextCandidate
    /\ ForgetQueueCount
    /\ UNCHANGED <<num_rows, registry, base_result_dir, meta_gave_up, run>>
    /\ UNCHANGED <<configVars, retryVars, sideVars>>

\* the scheduler: a job of the user ends and leaves the queue
JobLeavesQueue ==
    /\ pc \in QueueWatched
    /\ queue > 0
    /\ queue' = queue - 1
    /\ UNCHANGED <<num_rows, registry, pc, a, c, assay_params, base_result_dir,
                   jobs_in_queue, meta_gave_up, trail, submitted, run>>
    /\ UNCHANGED <<configVars, retryVars, sideVars>>

\* the user submits a job from somewhere else
OtherSubmitter ==
    /\ pc \in QueueWatched
    /\ queue < MaxQueue
    /\ queue' = queue + 1
    /\ UNCHANGED <<num_rows, registry, pc, a, c, assay_params, base_result_dir,
                   jobs_in_queue, meta_gave_up, trail, submitted, run>>
    /\ UNCHANGED <<configVars, retryVars, sideVars>>

\* After the first run the pipeline trains the submitted jobs and registers
\* a model for each.  The search is then started again on the same
\* configuration and assays: a new instance (a new hyperparam_uuid,
\* generate_param_combos again, empty num_rows).  With rerun set the
\* registry is not read and the second run repeats the first.
SecondRun ==
    /\ pc = "done"
    /\ run = "first"
    /\ ~params.rerun
    /\ registry' = registry \cup {ModelOf(submitted[j]) : j \in 1..Len(submitted)}
    /\ run' = "second"
    /\ hyperparam_uuid' = "hs-second"
    /\ new_params' = NewParams(params.cfg, "hs-second")
    /\ num_rows' = EmptyDict
    /\ pc' = "for_assay"
    /\ a' = 1
    /\ c' = 0
    /\ assay_params' = EmptyDict
    /\ base_result_dir' = <<>>
    /\ meta_gave_up' = FALSE
    /\ trail' = {}
    /\ UNCHANGED <<params, param_combos, assays, datastore, queue, jobs_in_queue, submitted>>
    /\ UNCHANGED <<retryVars, sideVars>>

Next ==
    \/ AssayLoopEnd
    \/ AssayLoopNext
    \/ GetDatasetMetadataAttempt
    \/ GetDatasetMetadataSleep
    \/ GetDatasetMetadataReturn
    \/ ComboLoopEnd
    \/ ComboLoopNext
    \/ SizeFilter
    \/ DupCheck
    \/ AlreadyRunAttempt
    \/ AlreadyRunSleep
    \/ AlreadyRunReturn
    \/ Poll
    \/ ThrottleSleep
    \/ RunCommand
    \/ JobLeavesQueue
    \/ OtherSubmitter
    \/ SecondRun

Spec == Init /\ [][Next]_vars

\* the steps of submit_jobs itself
SubmitJobsStep ==
    \/ AssayLoopEnd
    \/ AssayLoopNext
    \/ GetDatasetMetadataAttempt
    \/ GetDatasetMetadataSleep
    \/ GetDatasetMetadataReturn
    \/ ComboLoopEnd
    \/ ComboLoopNext
    \/ SizeFilter
    \/ DupCheck
    \/ AlreadyRunAttempt
    \/ AlreadyRunSleep
    \/ AlreadyRunReturn
    \/ Poll
    \/ ThrottleSleep
    \/ RunCommand

\* SpecLive: the interpreter keeps running submit_jobs, and every external
\* call returns (each is one step)
SpecLive == Spec /\ WF_vars(SubmitJobsStep)

\* ------------------------------------------------------------------------
\* SpecDup: the duplicate check of submit_jobs (lines 781-782) on the second
\* candidate of a sweep, once the job of the first candidate has trained and
\* its model is in the registry
\* ------------------------------------------------------------------------

\* one model type and one hyperparameter of it that the search sweeps
\* (lines 231-238 and the keys of rename_dict, lines 88-130)
SweptChoices ==
    {<<"NN", "learning_rate">>, <<"NN", "weight_decay_penalty">>,
     <<"RF", "rf_estimators">>, <<"RF", "rf_max_features">>, <<"RF", "rf_max_depth">>,
     <<"xgboost", "xgb_learning_rate">>, <<"xgboost", "xgb_gamma">>}

\* lines 372-380 for one model type, one featurizer and one hyperparameter
\* swept over two values
SweepCombos(model_type, key) ==
    ProductDicts(<<key, "model_type", "featurizer">>,
                 [k \in {key, "model_type", "featurizer"} |->
                     IF k = "model_type" THEN <<model_type>>
                     ELSE IF k = "featurizer" THEN <<"ecfp">>
                     ELSE <<1, 2>>])

\* lines 741-754 and 770-775: the working record of candidate n of the
\* assay, written over the record of the candidate before it
RECURSIVE CandidateRecord(_, _, _, _)
CandidateRecord(base, combos, dir, n) ==
    IF n = 0 THEN base
    ELSE OverlayCombo(IF n = 1 THEN base
                      ELSE DictSet(CandidateRecord(base, combos, dir, n - 1), "result_dir",
                                   JobResultDir(dir, SubSeq(combos, 1, n - 2))),
                      combos[n])

InitDup ==
    /\ RetryIdle
    /\ PermIdle
    /\ GridIdle
    /\ MainIdle
    /\ AssayIdle
    /\ SplitIdle
    /\ \E sweep \in SweptChoices, rerun \in BOOLEAN, max_jobs \in 1..MaxJobsCap :
          /\ params = [rerun |-> rerun, max_jobs |-> max_jobs, nn_size_scale_factor |-> 1,
                       cfg |-> [CfgNone EXCEPT !.model_type = <<sweep[1]>>,
                                               !.featurizer = <<"ecfp">>]]
          /\ param_combos = SweepCombos(sweep[1], sweep[2])
    /\ hyperparam_uuid = "hs-first"
    /\ new_params = NewParams(params.cfg, hyperparam_uuid)
    /\ assays \in AssayLists
    /\ datastore \in Datastores
    /\ a \in 1..Len(assays)
    /\ c = 2
    /\ LET base == MetadataMerged(AssayBase(new_params, assays[a]), TRUE, hyperparam_uuid)
           dir  == base["result_dir"] \o <<base["dataset_name"]>>
           job  == [a |-> a, c |-> 1, run |-> "first",
                    params |-> DictSet(CandidateRecord(base, param_combos, dir, 1),
                                       "result_dir", JobResultDir(dir, <<>>))]
       IN  /\ base_result_dir = dir
           /\ submitted = <<job>>
           /\ registry = {ModelOf(job)}
           /\ assay_params = CandidateRecord(base, param_combos, dir, 2)
    /\ num_rows = NumRowsMerged(EmptyDict, assay_params, TRUE,
                                datastore[assay_params["dataset_key"]])
    /\ queue = 0
    /\ pc = "dup_check"
    /\ jobs_in_queue = 0
    /\ meta_gave_up = FALSE
    /\ trail = {"filtered"}
    /\ run = "first"

NextDup ==
    \/ DupCheck
    \/ AlreadyRunAttempt
    \/ AlreadyRunSleep
    \/ AlreadyRunReturn

SpecDup == InitDup /\ [][NextDup]_vars

\* ------------------------------------------------------------------------
\* SpecSplit: split_and_save_dataset called on an instance of the base
\* class or of one of the four search classes
\* ------------------------------------------------------------------------

\* the classes that define split_and_save_dataset (lines 481, 851, 901,
\* 950, 999): the base class and its four subclasses
SearchClasses ==
    {"HyperparameterSearch", "GridSearch", "RandomSearch", "GeometricSearch",
     "UserSpecifiedSearch"}

\* the frames the interpreter allows on its stack before a call raises
\* RecursionError (sys.getrecursionlimit(), 1000 unless it was changed)
RecursionLimit == 40

\* the frames of the callers of split_and_save_dataset
MaxCallerFrames == 3

\* the class whose split_and_save_dataset the attribute look-up
\* self.split_and_save_dataset finds on an instance: every class defines
\* its own, so it is the instance's class
MethodFound(class) == class

InitSplit ==
    /\ SubmitIdle
    /\ RetryIdle
    /\ PermIdle
    /\ GridIdle
    /\ MainIdle
    /\ AssayIdle
    /\ sas_self \in SearchClasses
    /\ sas_pc = "call"
    /\ sas_frames \in 1..MaxCallerFrames
    /\ sas_params \in [dataset_key : {"a1.csv"}, previously_split : BOOLEAN,
                       split_uuid : {"None", "su0"}]
    /\ sas_ops = <<>>
    /\ sas_exit = ""

SplitOthersUnchanged ==
    UNCHANGED <<configVars, submitVars, permVars, gridVars, mainVars, assayVars>>

\* lines 851-852, 901-902, 950-951, 999-1000: the body of the method of a
\* subclass is the call self.split_and_save_dataset(assay_params), which
\* finds the same method again; a call with the stack at the limit raises
\* RecursionError, which no frame below catches
SubclassCall ==
    /\ sas_pc = "call"
    /\ MethodFound(sas_self) # "HyperparameterSearch"
    /\ IF sas_frames >= RecursionLimit
       THEN /\ sas_pc' = "exited"
            /\ sas_exit' = "RecursionError"
            /\ UNCHANGED sas_frames
       ELSE /\ sas_frames' = sas_frames + 1
            /\ UNCHANGED <<sas_pc, sas_exit>>
    /\ UNCHANGED <<sas_self, sas_params, sas_ops, retryVars>>
    /\ SplitOthersUnchanged

\* line 492: the method of the base class starts with get_dataset_metadata
BaseCall ==
    /\ sas_pc = "call"
    /\ MethodFound(sas_self) = "HyperparameterSearch"
    /\ sas_frames' = sas_frames + 1
    /\ sas_ops' = Append(sas_ops, "get_dataset_metadata")
    /\ LoopStart("get_dataset_metadata")
    /\ sas_pc' = "get_dataset_metadata"
    /\ UNCHANGED <<sas_self, sas_params, sas_exit>>
    /\ SplitOthersUnchanged

\* lines 432-479: get_dataset_metadata returns None whether the fetch
\* succeeded or gave up, and line 493 goes on
BaseMetadataReturn ==
    /\ sas_pc = "get_dataset_metadata"
    /\ loop_pc \in {"ok", "gave_up"}
    /\ sas_pc' = "split"
    /\ LoopLeave
    /\ UNCHANGED <<sas_self, sas_frames, sas_params, sas_ops, sas_exit>>
    /\ SplitOthersUnchanged

\* what lines 494-500 reach of the external pipeline before one of its
\* calls raises, if any does
PipelineOutcomes == {"returns", "split_dataset raises", "save_split_dataset raises"}

\* lines 494-502: the dataset is split and saved and the record updated,
\* unless a call of the pipeline raises
BaseSplit ==
    /\ sas_pc = "split"
    /\ \E outcome \in PipelineOutcomes :
          /\ sas_ops' = sas_ops \o
                 (CASE outcome = "returns" -> <<"split_dataset", "save_split_dataset">>
                    [] outcome = "split_dataset raises" -> <<>>
                    [] outcome = "save_split_dataset raises" -> <<"split_dataset">>)
          /\ IF outcome = "returns"
             THEN /\ sas_params' = [sas_params EXCEPT !.previously_split = TRUE,
                                                      !.split_uuid = "new"]
                  /\ sas_exit' = "returned"
             ELSE /\ sas_exit' = "Exception"
                  /\ UNCHANGED sas_params
    /\ sas_pc' = "exited"
    /\ sas_frames' = sas_frames - 1
    /\ UNCHANGED <<sas_self, retryVars>>
    /\ SplitOthersUnchanged

NextSplit ==
    \/ SubclassCall
    \/ BaseCall
    \/ GetDatasetMetadataAttempt
    \/ GetDatasetMetadataSleep
    \/ BaseMetadataReturn
    \/ BaseSplit

SpecSplit == InitSplit /\ [][NextSplit]_vars

\* ------------------------------------------------------------------------
\* Properties of submit_jobs (Spec)
\* ------------------------------------------------------------------------

\* the positions between the two checks and the submission
PastChecks == {"poll", "sleep", "run_command"}

\* the size filter looks at the working record and the row count is known
SizeKnown ==
    /\ assay_params["model_type"] = "NN"
    /\ assay_params["featurizer"] # "graphconv"
    /\ assay_params["dataset_key"] \in DOMAIN num_rows

\* get_num_params(candidate) * nn_size_scale_factor
SizeProduct == get_num_params(assay_params).n * params.nn_size_scale_factor

RowCount == num_rows[assay_params["dataset_key"]]

\* the keys one combination writes into a record
ComboKeys(combo) ==
    (DOMAIN combo \ {"layers"})
    \cup (IF "layers" \in DOMAIN combo THEN DOMAIN combo["layers"] ELSE {})

\* the first run submitted a job for the pair (x, y)
FirstRunSubmitted(x, y) ==
    \E j \in 1..Len(submitted) :
        submitted[j].run = "first" /\ submitted[j].a = x /\ submitted[j].c = y

\* C1: whenever submit_jobs is about to hand a job to the scheduler, with or
\* without a sweep, it has polled the queue for that job and the last count
\* it read is strictly below max_jobs.
C1_ThrottleBeforeSubmit ==
    pc = "run_command" => ("polled" \in trail /\ jobs_in_queue < params.max_jobs)

\* C2: within one run the submitted (assay index, combination index) pairs
\* are strictly increasing in lexicographic order: none out of order, none
\* twice, whatever sbatch did with the earlier ones.
C2_SubmissionOrder ==
    \A j, k \in 1..Len(submitted) :
        (j < k /\ submitted[j].run = submitted[k].run) =>
            \/ submitted[j].a < submitted[k].a
            \/ submitted[j].a = submitted[k].a /\ submitted[j].c < submitted[k].c

\* three jobs of one run: two combinations of one assay, then a later assay
C2_Witness ==
    \E j, k, l \in 1..Len(submitted) :
        /\ j < k /\ k < l
        /\ submitted[j].run = "first" /\ submitted[k].run = "first"
        /\ submitted[l].run = "first"
        /\ submitted[j].a = submitted[k].a /\ submitted[j].c < submitted[k].c
        /\ submitted[k].a < submitted[l].a

\* C3: the record submitted for a pair (assay, combination) holds the keys
\* of the per-assay base and of that one combination only: no key left over
\* from a combination processed earlier for the same assay.
C3_NoLeftover ==
    \A j \in 1..Len(submitted) :
        submitted[j].c > 0 =>
            DOMAIN submitted[j].params \subseteq
                (DOMAIN AssayBase(new_params, assays[submitted[j].a]))
                \cup {"hyperparam_uuid"}
                \cup ComboKeys(param_combos[submitted[j].c])

\* C4: for an NN candidate on a featurizer other than graphconv whose row
\* count is known and whose parameter count is a number: if the count times
\* nn_size_scale_factor reaches the row count the candidate goes no further
\* than the filter and is not submitted; if it is strictly below, the filter
\* does not reject it, and with rerun set it is on its way to run_command,
\* held back only while the polled queue count is at or above max_jobs.
C4_SizeFilter ==
    ("filtered" \in trail /\ SizeKnown /\ ~get_num_params(assay_params).none) =>
        /\ SizeProduct >= RowCount =>
              /\ "submitted" \notin trail
              /\ pc \notin {"dup_check", "already_run"} \cup PastChecks
        /\ SizeProduct < RowCount =>
              /\ "filter_rejected" \notin trail
              /\ params.rerun =>
                    \/ "submitted" \in trail
                    \/ pc \in {"dup_check", "poll", "run_command"}
                    \/ pc = "sleep" /\ jobs_in_queue >= params.max_jobs

\* with rerun set, a candidate one parameter under the row count has been
\* submitted, and an earlier pair of the run has not: the filter is all that
\* can have stopped it
C4_Witness ==
    /\ params.rerun
    /\ "submitted" \in trail
    /\ SizeKnown
    /\ SizeProduct + 1 = RowCount
    /\ LET last == submitted[Len(submitted)]
       IN  \E x \in 1..last.a, y \in 1..Len(param_combos) :
              /\ x < last.a \/ y < last.c
              /\ ~FirstRunSubmitted(x, y)

C6_DuplicateCheck ==
    /\ (/\ ~params.rerun
        /\ "queried" \in trail
        /\ pc # "already_run"
        /\ "query_gave_up" \notin trail
        /\ TrackerGetMetadata(FilterDict(assay_params), assay_params["collection_name"],
                              registry) # {})
       => ("submitted" \notin trail /\ pc \notin PastChecks)
    /\ params.rerun =>
          /\ "queried" \notin trail
          /\ "dup_rejected" \notin trail
          /\ pc # "already_run"

\* a candidate of the second run skipped because the registry holds a model
\* for it, while the loop still has candidates to go
C6_Witness ==
    /\ ~params.rerun
    /\ "dup_rejected" \in trail
    /\ pc = "for_combo"
    /\ c <= Len(param_combos)
    /\ registry # {}

\* C7: the steps of a candidate come in the order size filter, duplicate
\* check, queue poll, submission, each only after the one before it, and a
\* rejection ends the candidate: one rejected by the filter is not queried
\* for, and one rejected by either check is neither polled for, slept for
\* nor submitted.
C7_StepOrder ==
    /\ "filter_rejected" \in trail =>
          trail \cap {"queried", "dup_rejected", "polled", "slept", "submitted"} = {}
    /\ "dup_rejected" \in trail => trail \cap {"polled", "slept", "submitted"} = {}
    /\ "queried" \in trail => "filtered" \in trail
    /\ "polled" \in trail =>
          /\ "filtered" \in trail
          /\ ~params.rerun => "queried" \in trail
    /\ "slept" \in trail => "polled" \in trail
    /\ "submitted" \in trail =>
          /\ "filtered" \in trail
          /\ ~params.rerun => "queried" \in trail
          /\ param_combos # <<>> => "polled" \in trail
    /\ pc \in {"dup_check", "already_run"} =>
          trail \cap {"polled", "slept", "submitted"} = {}
    /\ pc \in PastChecks => "submitted" \notin trail

\* a candidate that took every step, the throttle sleep included
C7_Witness == trail = {"filtered", "queried", "polled", "slept", "submitted"}

\* C9: no job is submitted for an assay whose metadata fetch gave up.
C9_NoJobWithoutMetadata == "submitted" \in trail => ~meta_gave_up

\* ------------------------------------------------------------------------
\* Properties of the retry loops (SpecRetry)
\* ------------------------------------------------------------------------

\* C8: every retry loop has the same ceiling of 5 retries and the same sleep
\* between attempts; it sleeps once per failed attempt it retries, stops at
\* its first success, gives up at the sixth failure, and never makes more
\* than 6 attempts.
C8_RetryPolicy ==
    /\ \A name \in Loops :
          /\ RetryLimit[name] = 5
          /\ SleepSeconds[name] = SleepSeconds["get_dataset_metadata"]
    /\ loop \in Loops =>
          /\ attempts <= 6
          /\ i <= 5
          /\ slept = i * SleepSeconds[loop]
          /\ loop_pc = "try" => (attempts = i /\ failures = i)
          /\ loop_pc = "sleep" => (attempts = i + 1 /\ failures = i + 1)
          /\ loop_pc = "ok" => (attempts = i + 1 /\ failures = i)
          /\ loop_pc = "gave_up" => (attempts = 6 /\ failures = 6 /\ i = 5)

\* a loop that gave up after 6 attempts and 5 sleeps
C8_Witness ==
    /\ loop = "already_run"
    /\ loop_pc = "gave_up"
    /\ attempts = 6
    /\ slept = 5 * SleepSeconds[loop]

\* ------------------------------------------------------------------------
\* Properties of permutate_NNlayer_combo_params (SpecPerm)
\* ------------------------------------------------------------------------

NonIncreasing(layer) == \A n \in 1..(Len(layer) - 1) : layer[n] >= layer[n + 1]

\* C10: for non-empty node_nums, every topology the function returns is
\* non-increasing from left to right.
C10_Funnel ==
    (perm_result.called /\ ~perm_result.raised /\ perm_args.node_nums # <<>>) =>
        \A n \in 1..Len(perm_result.layer_sizes) :
            NonIncreasing(perm_result.layer_sizes[n])

\* node sizes given in ascending order, a topology of two layers or more
\* returned
C10_Witness ==
    /\ perm_result.called
    /\ ~perm_result.raised
    /\ Len(perm_args.node_nums) >= 2
    /\ perm_args.node_nums[1] < perm_args.node_nums[2]
    /\ \E n \in 1..Len(perm_result.layer_sizes) :
          /\ Len(perm_result.layer_sizes[n]) >= 2
          /\ perm_result.layer_sizes[n][1] > perm_result.layer_sizes[n][2]

\* how often x occurs in s
CountIn(x, s) == Cardinality({n \in 1..Len(s) : s[n] = x})

\* max(max_final_layer_size, min(node_nums)), the cap after relaxation
RelaxedCapOf(args) ==
    IF \A n \in 1..Len(args.node_nums) : args.node_nums[n] > args.max_final_layer_size
    THEN CHOOSE x \in Range(args.node_nums) : \A y \in Range(args.node_nums) : x <= y
    ELSE args.max_final_layer_size

\* t is a combination of the node sizes in descending order: non-increasing,
\* and no size used more often than node_nums holds it
IsCombination(t, node_nums) ==
    /\ NonIncreasing(t)
    /\ \A x \in Range(t) : CountIn(x, t) <= CountIn(x, node_nums)

\* the topologies one dropout value is to yield, for the layer counts in ks
ExpectedTopologies(args, ks) ==
    {t \in UNION {[1..k -> Range(args.node_nums)] : k \in ks} :
        /\ IsCombination(t, args.node_nums)
        /\ t = <<>> \/ t[Len(t)] <= RelaxedCapOf(args)}

\* the position of the first occurrence of x in s
FirstIndex(x, s) == CHOOSE n \in 1..Len(s) : s[n] = x /\ \A m \in 1..(n - 1) : s[m] # x

\* the result is, per dropout value in order, the topologies of `expected`
\* once each, ordered by layer count as layer_nums orders them, each paired
\* with a dropout list of its length filled with that dropout value
ExactResult(args, result, expected) ==
    LET out   == result.layer_sizes
        drops == result.dropouts
        block == Cardinality(expected)
    IN  /\ Len(out) = Len(args.dropout_list) * block
        /\ Len(drops) = Len(out)
        /\ \A d \in 1..Len(args.dropout_list) :
              /\ {out[(d - 1) * block + n] : n \in 1..block} = expected
              /\ \A n \in 1..block :
                    LET t == out[(d - 1) * block + n]
                    IN  /\ drops[(d - 1) * block + n] =
                              [m \in 1..Len(t) |-> args.dropout_list[d]]
                        /\ \A q \in (n + 1)..block :
                              LET u == out[(d - 1) * block + q]
                              IN  Len(u) # Len(t) =>
                                     FirstIndex(Len(t), args.layer_nums)
                                         < FirstIndex(Len(u), args.layer_nums)

\* C11 as stated: for every layer_nums, non-empty node_nums, dropout_list
\* and cap the function returns exactly the expected topologies.
C11_ExactForEveryLayerNums ==
    (perm_result.called /\ perm_args.node_nums # <<>>) =>
        /\ ~perm_result.raised
        /\ ExactResult(perm_args, perm_result,
                       ExpectedTopologies(perm_args, Range(perm_args.layer_nums)))

\* C11, amended: for layer counts of 1 or more and non-empty node_nums the
\* function returns, per dropout value in input order and per layer count in
\* input order, exactly the distinct combinations of that length of the
\* descending node sizes whose last element is at most the relaxed cap, each
\* once per dropout value and paired at its index with a dropout list of its
\* length filled with that value; the first call of the docstring yields
\* {[16,8], [16,4], [8,4]} and the second exactly {[8,8], [8,4]}, each with
\* dropouts [0,0].
C11_ExactForPositiveLayerNums ==
    (perm_result.called /\ perm_args.node_nums # <<>>
       /\ 0 \notin Range(perm_args.layer_nums)) =>
        /\ ~perm_result.raised
        /\ ExactResult(perm_args, perm_result,
                       ExpectedTopologies(perm_args, Range(perm_args.layer_nums)))
        /\ perm_args = PermExampleDistinct =>
              /\ Range(perm_result.layer_sizes) = {<<16, 8>>, <<16, 4>>, <<8, 4>>}
              /\ perm_result.dropouts = << <<0, 0>>, <<0, 0>>, <<0, 0>> >>
        /\ perm_args = PermExampleRepeated =>
              /\ perm_result.layer_sizes = << <<8, 8>>, <<8, 4>> >>
              /\ perm_result.dropouts = << <<0, 0>>, <<0, 0>> >>

\* two dropout values and two layer counts given larger first: both blocks
\* hold a two-layer topology before a one-layer one
C11_Witness ==
    /\ perm_result.called
    /\ ~perm_result.raised
    /\ perm_args.layer_nums = <<2, 1>>
    /\ perm_args.dropout_list = <<1, 0>>
    /\ Len(perm_result.layer_sizes) >= 4
    /\ Len(perm_result.layer_sizes[1]) = 2
    /\ perm_result.dropouts[1] = <<1, 1>>
    /\ perm_result.dropouts[Len(perm_result.dropouts)] = <<0>>

\* C12: no two entries of the result are the same topology: no two indices
\* hold equal layer sizes and equal dropouts, whatever the input repeats.
C12_NoDuplicateTopology ==
    perm_result.called =>
        \A n, m \in 1..Len(perm_result.layer_sizes) :
            (n # m /\ perm_result.layer_sizes[n] = perm_result.layer_sizes[m]) =>
                perm_result.dropouts[n] # perm_result.dropouts[m]

\* C13: called with an empty layer_nums, an empty node_nums or an empty
\* dropout_list, the function raises nothing and returns two empty lists.
C13_EmptyInputEmptyOutput ==
    (/\ perm_result.called
     /\ \/ perm_args.layer_nums = <<>>
        \/ perm_args.node_nums = <<>>
        \/ perm_args.dropout_list = <<>>)
    => (/\ ~perm_result.raised
        /\ perm_result.layer_sizes = <<>>
        /\ perm_result.dropouts = <<>>)

\* every topology returned ends in a size of at most
\* max(max_final_layer_size, min(node_nums))
LastLayerCapped ==
    \A n \in 1..Len(perm_result.layer_sizes) :
        LET t == perm_result.layer_sizes[n]
        IN  t[Len(t)] <= RelaxedCapOf(perm_args)

\* node_nums and dropout_list are non-empty and some layer count can be met
SomeLayerCountFits ==
    /\ perm_args.node_nums # <<>>
    /\ perm_args.dropout_list # <<>>
    /\ \E k \in Range(perm_args.layer_nums) : 1 <= k /\ k <= Len(perm_args.node_nums)

SameFraction(x, y) == x[1] * y[2] = y[1] * x[2]

Difference(x, y) == <<x[1] * y[2] - y[1] * x[2], x[2] * y[2]>>

\* t is the integer part of the fraction x, towards zero
IsTruncationOf(t, x) ==
    IF x[1] >= 0
    THEN t * x[2] <= x[1] /\ x[1] < (t + 1) * x[2]
    ELSE (t - 1) * x[2] < x[1] /\ x[1] <= t * x[2]

\* sample n of count between low and high, as the claim spaces them
EvenSample(args, n) ==
    <<args.low * (args.count - 1) + (n - 1) * (args.high - args.low), args.count - 1>>

\* count values from low to high, evenly spaced, truncated if integral
GridAsStated(args, values) ==
    /\ Len(values) = args.count
    /\ args.count > 0 =>
          /\ SameFraction(values[1], <<args.low, 1>>)
          /\ SameFraction(values[Len(values)], <<args.high, 1>>)
    /\ ~args.integral =>
          \A n \in 1..(Len(values) - 2) :
              SameFraction(Difference(values[n + 1], values[n]),
                           Difference(values[n + 2], values[n + 1]))
    /\ (args.integral /\ args.count > 1) =>
          \A n \in 1..Len(values) :
              /\ values[n][2] = 1
              /\ IsTruncationOf(values[n][1], EvenSample(args, n))

\* C19 as stated: for every (low, high, count) the Grid strategy returns
\* count values, the first low, the last high, evenly spaced, each cut to an
\* integer for an integral parameter.
C19_GridForEveryCount == grid_result.called => GridAsStated(grid_args, grid_result.values)

\* C19, amended: for a count of 2 or more the Grid strategy returns count
\* values, the first low, the last high, evenly spaced ((0, 1, 5) gives 0,
\* 1/4, 1/2, 3/4, 1), each cut towards zero to an integer for an integral
\* parameter; for a count of 1 it returns the one value low, and for a count
\* of 0 no value.
C19_GridFromTwoPoints ==
    grid_result.called =>
        /\ grid_args.count >= 2 => GridAsStated(grid_args, grid_result.values)
        /\ grid_args.count = 1 =>
              /\ Len(grid_result.values) = 1
              /\ SameFraction(grid_result.values[1], <<grid_args.low, 1>>)
        /\ grid_args.count = 0 => grid_result.values = <<>>
        /\ grid_args = [low |-> 0, high |-> 1, count |-> 5, integral |-> FALSE] =>
              /\ Len(grid_result.values) = 5
              /\ SameFraction(grid_result.values[1], <<0, 1>>)
              /\ SameFraction(grid_result.values[2], <<1, 4>>)
              /\ SameFraction(grid_result.values[3], <<1, 2>>)
              /\ SameFraction(grid_result.values[4], <<3, 4>>)
              /\ SameFraction(grid_result.values[5], <<1, 1>>)

\* an integral parameter swept from a negative to a positive value in steps
\* that are not whole numbers
C19_Witness ==
    /\ grid_result.called
    /\ grid_args.integral
    /\ grid_args.low < 0
    /\ grid_args.high > 0
    /\ grid_args.count = 5
    /\ grid_result.values[2] = <<-1, 1>>
    /\ grid_result.values[4] = <<0, 1>>

\* ------------------------------------------------------------------------
\* Properties of main (SpecMain)
\* ------------------------------------------------------------------------

IsPrefix(s, t) == Len(s) <= Len(t) /\ \A n \in 1..Len(s) : s[n] = t[n]

ValidSearchTypes == {"grid", "random", "geometric", "user_specified"}

\* what resolves an assay or submits a job
AssayOrJobCalls ==
    {"generate_assay_list", "get_shortlist_df", "return_split_uuid", "generate_split_shortlist",
     "submit_jobs"}

AfterConstructor(s) == IF s = <<>> THEN <<>> ELSE Tail(s)

\* the calls of a full search, after the constructor
FullSearchCalls ==
    {<<"generate_param_combos", "generate_assay_list", "get_shortlist_df", "submit_jobs">>,
     <<"generate_param_combos", "generate_assay_list", "return_split_uuid", "submit_jobs">>}

\* C20: an unknown search_type exits non-zero with no assay resolved and no
\* job submitted; split_only runs generate_split_shortlist only; otherwise
\* generate_param_combos, generate_assay_list and submit_jobs run in this
\* order.
C20_MainDispatch ==
    /\ main_args.search_type \notin ValidSearchTypes =>
          /\ Range(calls) \cap AssayOrJobCalls = {}
          /\ main_pc = "exited" => exit_status > 0
          /\ main_pc \in {"main", "exited"}
    /\ (main_args.search_type \in ValidSearchTypes /\ main_args.split_only) =>
          /\ \A n \in 2..Len(calls) : calls[n] = "generate_split_shortlist"
          /\ Len(calls) <= 2
          /\ exit_status = 0 => Len(calls) = 2
    /\ (main_args.search_type \in ValidSearchTypes /\ ~main_args.split_only) =>
          /\ \E full \in FullSearchCalls : IsPrefix(AfterConstructor(calls), full)
          /\ exit_status = 0 => AfterConstructor(calls) \in FullSearchCalls

C20_Witness ==
    /\ main_args.search_type = "geometric"
    /\ ~main_args.split_only
    /\ exit_status = 0
    /\ calls[Len(calls)] = "submit_jobs"

\* ------------------------------------------------------------------------
\* Properties of generate_param_combos (SpecCombos)
\* ------------------------------------------------------------------------

\* the (model type, featurizer) pairs that contribute a subset
SubsetPairs(cfg) ==
    {mf \in (Range(cfg.model_type) \cap {"NN", "RF", "xgboost"}) \X Range(cfg.featurizer) :
        mf[1] = "NN" \/ mf[2] # "graphconv"}

\* the combinations of one pair, in order
CombosOf(combos, mf) ==
    SelectSeq(combos, LAMBDA x : x["model_type"] = mf[1] /\ x["featurizer"] = mf[2])

\* the expanded value lists of the subset of one pair
ExpandedLists(cfg, mf) == generate_combo(cfg, Subcombo(cfg, mf[1], mf[2]))

RECURSIVE ProductOfLengths(_, _)
ProductOfLengths(lists, keys) ==
    IF keys = {} THEN 1
    ELSE LET k == CHOOSE x \in keys : TRUE
         IN  Len(lists[k]) * ProductOfLengths(lists, keys \ {k})

Max(S) == CHOOSE x \in S : \A y \in S : x >= y

\* one position of every list
IndexTuples(lists) ==
    {t \in [DOMAIN lists -> 1..Max({Len(lists[k]) : k \in DOMAIN lists})] :
        \A k \in DOMAIN lists : t[k] <= Len(lists[k])}

TupleAt(lists, t) == [k \in DOMAIN lists |-> lists[k][t[k]]]

\* C15: every (model type, featurizer) subset has as many combinations as
\* the product of the lengths of its expanded value lists, one per product
\* tuple, and exactly one when nothing is swept; every combination belongs
\* to one of the subsets.
C15_ProductPerSubset ==
    pc = "generated" =>
        /\ \A n \in 1..Len(param_combos) :
              <<param_combos[n]["model_type"], param_combos[n]["featurizer"]>>
                  \in SubsetPairs(params.cfg)
        /\ \A mf \in SubsetPairs(params.cfg) :
              LET lists == ExpandedLists(params.cfg, mf)
                  cs    == CombosOf(param_combos, mf)
              IN  /\ Len(cs) = ProductOfLengths(lists, DOMAIN lists)
                  /\ \A n \in 1..Len(cs) : \E t \in IndexTuples(lists) : cs[n] = TupleAt(lists, t)
                  /\ \A t \in IndexTuples(lists) :
                        Cardinality({n \in 1..Len(cs) : cs[n] = TupleAt(lists, t)})
                            = Cardinality({u \in IndexTuples(lists) :
                                              TupleAt(lists, u) = TupleAt(lists, t)})
                  /\ DOMAIN lists = {"model_type", "featurizer"} => Len(cs) = 1

\* a grid search over two model types: the network swept over three
\* learning rates and two topologies, the forest over three tree counts
C15_Witness ==
    /\ pc = "generated"
    /\ params.cfg.search_type = "grid"
    /\ params.cfg.model_type = <<"NN", "RF">>
    /\ params.cfg.featurizer = <<"graphconv", "ecfp">>
    /\ Len(CombosOf(param_combos, <<"NN", "ecfp">>)) = 6
    /\ Len(CombosOf(param_combos, <<"RF", "ecfp">>)) = 3
    /\ Len(param_combos) = 15

\* C16: after generate_param_combos no combination has a key that is also a
\* key of new_params or an excluded key, also when model_type or featurizer
\* is single-valued and therefore fixed.
C16_DisjointFromFixed ==
    pc = "generated" =>
        \A n \in 1..Len(param_combos) :
            DOMAIN param_combos[n] \cap (DOMAIN new_params \cup excluded_keys) = {}

\* the keys the claim calls NN-only
NNOnlyKeys == {"learning_rate", "weight_decay_penalty", "layers", "layer_sizes", "dropouts"}

RFOnlyKeys == {"rf_estimators", "rf_max_features", "rf_max_depth"}

XgboostOnlyKeys == {"xgb_learning_rate", "xgb_gamma"}

KeysKeptApart(combo) ==
    /\ combo["model_type"] \in {"RF", "xgboost"} => combo["featurizer"] # "graphconv"
    /\ combo["model_type"] = "NN" => DOMAIN combo \cap (RFOnlyKeys \cup XgboostOnlyKeys) = {}
    /\ combo["model_type"] = "RF" => DOMAIN combo \cap (NNOnlyKeys \cup XgboostOnlyKeys) = {}
    /\ combo["model_type"] = "xgboost" => DOMAIN combo \cap (NNOnlyKeys \cup RFOnlyKeys) = {}

\* C17: after generate_param_combos no RF or xgboost combination is on
\* graphconv, no combination holds a key specific to another model type,
\* and every NN x featurizer pair and every RF or xgboost x non-graphconv
\* featurizer pair contributes the combinations of its own subset.
C17_ModelTypeSubsets ==
    pc = "generated" =>
        /\ \A n \in 1..Len(param_combos) : KeysKeptApart(param_combos[n])
        /\ \A mf \in SubsetPairs(params.cfg) :
              CombosOf(param_combos, mf) =
                  generate_combos(params.cfg, Subcombo(params.cfg, mf[1], mf[2]))

\* ------------------------------------------------------------------------
\* Properties of the fixed parameters (Spec)
\* ------------------------------------------------------------------------

\* the configured parameters with one value that neither the assay nor the
\* combination nor the dispatch sets
FixedConfigured(cfg) ==
    {k \in {"descriptor_type", "collection_name"} : cfg[k] # ""}
    \cup {"previously_featurized"}
    \cup {k \in {"learning_rate", "rf_estimators", "xgb_gamma"} : Len(cfg[k]) = 1}

FixedValue(cfg, k) ==
    IF k \in {"learning_rate", "rf_estimators", "xgb_gamma"} THEN cfg[k][1] ELSE cfg[k]

FixedCopied(cfg, record, keys) ==
    \A k \in keys : k \in DOMAIN record /\ record[k] = FixedValue(cfg, k)

\* C18: every fixed configured parameter is in every submitted job record
\* with its value, whatever the value (0 and False included), and is a key
\* of no combination.
C18_FixedInEveryRecord ==
    /\ \A j \in 1..Len(submitted) :
          FixedCopied(params.cfg, submitted[j].params, FixedConfigured(params.cfg))
    /\ \A n \in 1..Len(param_combos) :
          DOMAIN param_combos[n] \cap FixedConfigured(params.cfg) = {}

\* ------------------------------------------------------------------------
\* Properties of already_run (Spec)
\* ------------------------------------------------------------------------

\* two records that agree on every field that is not volatile
DifferOnlyInVolatile(r1, r2) ==
    /\ DOMAIN r1 \ VolatileKeys = DOMAIN r2 \ VolatileKeys
    /\ \A k \in DOMAIN r1 \ VolatileKeys : r1[k] = r2[k]

\* the record with one volatile field removed, and with it replaced
Without(record, k) == DictDel(record, {k})

Replaced(record, k) == DictSet(record, k, <<"other", k>>)

\* the record already_run is given: each volatile field removed or replaced
\* gives the filter of the record
VariantsSameFilter ==
    \A k \in VolatileKeys :
        /\ FilterDict(Without(assay_params, k)) = FilterDict(assay_params)
        /\ FilterDict(Replaced(assay_params, k)) = FilterDict(assay_params)

\* the record submitted last and every earlier one that differs from it in
\* volatile fields only give one filter
NewestSameFilter ==
    \A j \in 1..Len(submitted) :
        DifferOnlyInVolatile(submitted[j].params, submitted[Len(submitted)].params)
            => FilterDict(submitted[j].params) = FilterDict(submitted[Len(submitted)].params)

\* C22: job records that differ only in volatile fields give the same
\* registry filter, and already_run leaves the record it is given as it was.
C22_VolatileIgnored ==
    [][/\ (pc = "already_run" /\ loop_pc = "try" /\ attempts = 0) => VariantsSameFilter
       /\ "submitted" \in trail => NewestSameFilter
       /\ pc = "already_run" => assay_params' = assay_params]_vars

\* the second run, whose registry query was not answered, has submitted the
\* first job again under another output directory: the two records differ
\* in volatile fields only
C22_Witness ==
    /\ Len(submitted) >= 2
    /\ submitted[1].run = "first"
    /\ submitted[Len(submitted)].run = "second"
    /\ submitted[1].params # submitted[Len(submitted)].params
    /\ DifferOnlyInVolatile(submitted[1].params, submitted[Len(submitted)].params)

\* ------------------------------------------------------------------------
\* Properties of get_num_params (Spec)
\* ------------------------------------------------------------------------

\* the input term the claim gives a candidate
InputTerm(combo) ==
    LET first == combo["layer_sizes"][1]
    IN  IF combo["featurizer"] = "ecfp" THEN first * 1024
        ELSE IF combo["featurizer"] = "descriptors" /\ combo["descriptor_type"] = "moe"
        THEN first * 306
        ELSE IF combo["featurizer"] = "descriptors"
                /\ combo["descriptor_type"] = "mordred_filtered"
        THEN first * 1555
        ELSE 0

\* C28: for every candidate the size filter looks at, get_num_params returns
\* the number layers[0] + sum(layers[i] * layers[i+1] + layers[i+1]) plus
\* the input term of its featurizer, which is zero for every featurizer and
\* descriptor type without a listed constant.
C28_NumberForEveryCandidate ==
    (pc = "filter" /\ FilterApplies(assay_params, num_rows)) =>
        get_num_params(assay_params) =
            [none |-> FALSE,
             n |-> LayerParamSum(assay_params["layer_sizes"]) + InputTerm(assay_params)]

\* ------------------------------------------------------------------------
\* Properties of the queue throttle (Spec)
\* ------------------------------------------------------------------------

\* C29: the cap is a snapshot: once a poll has read a count below max_jobs
\* the submission is the next step of the loop whatever the queue holds by
\* then; the loop does not read the queue again.
C29_BestEffortCap ==
    (pc = "run_command" /\ "polled" \in trail) =>
        /\ jobs_in_queue < params.max_jobs
        /\ ENABLED RunCommand
        /\ ~ENABLED Poll

\* another submitter has filled the queue between the poll and the
\* submission: the job is about to be submitted into a queue at the cap
C29_Witness ==
    /\ pc = "run_command"
    /\ "polled" \in trail
    /\ jobs_in_queue < params.max_jobs
    /\ queue >= params.max_jobs

\* ------------------------------------------------------------------------
\* Termination of submit_jobs (SpecLive)
\* ------------------------------------------------------------------------

\* each time the loop waits, a later poll reads a count below max_jobs
PollsBelowCap == [](pc = "sleep" => <>(pc = "run_command"))

\* C30: submit_jobs comes to its end with every assay and every combination
\* gone through, as long as every external call returns and the queue is
\* found below max_jobs at some poll each time the loop waits; and a job is
\* submitted with a sweep only on a count below max_jobs.
C30_Terminates ==
    /\ PollsBelowCap => <>(pc = "done" /\ a > Len(assays))
    /\ [](pc = "sleep" => (jobs_in_queue >= params.max_jobs /\ "submitted" \notin trail))

\* ------------------------------------------------------------------------
\* Properties of assemble_layers (SpecCombos)
\* ------------------------------------------------------------------------

\* the positions all layer lists have
CommonPositions(layers) == 1..Min({Len(layers[k]) : k \in DOMAIN layers})

\* the positions at which the lists of all layer parameters are equally long
MatchingPositions(layers) ==
    {n \in CommonPositions(layers) :
        \A k1, k2 \in DOMAIN layers : Len(layers[k1][n]) = Len(layers[k2][n])}

\* the j-th matching position
NthMatching(layers, j) ==
    CHOOSE n \in MatchingPositions(layers) :
        Cardinality({m \in MatchingPositions(layers) : m <= n}) = j

\* C26: the layers list holds one bundle per position at which all layer
\* lists are equally long, in positional order, bundle i made of element i
\* of each list: at most min(list lengths) bundles, no cross product, a
\* mismatched position left out; the combinations take their layers from it.
C26_PositionalZip ==
    (pc = "generated" /\ DOMAIN Layers(params.cfg) # {}) =>
        LET layers == Layers(params.cfg)
            zipped == assemble_layers(layers)
        IN  /\ Len(zipped) = Cardinality(MatchingPositions(layers))
            /\ Len(zipped) <= Min({Len(layers[k]) : k \in DOMAIN layers})
            /\ \A j \in 1..Len(zipped) :
                  zipped[j] = [k \in DOMAIN layers |-> layers[k][NthMatching(layers, j)]]
            /\ \A n \in 1..Len(param_combos) :
                  "layers" \in DOMAIN param_combos[n] =>
                      /\ param_combos[n]["model_type"] = "NN"
                      /\ param_combos[n]["layers"] \in Range(zipped)

\* two topologies against three dropout lists, the first pair mismatched:
\* the one bundle left is the second position
C26_Witness ==
    /\ pc = "generated"
    /\ Len(params.cfg.layer_sizes) = 2
    /\ Len(params.cfg.dropouts) = 3
    /\ param_combos # <<>>
    /\ \A n \in 1..Len(param_combos) :
          /\ "layers" \in DOMAIN param_combos[n]
          /\ param_combos[n]["layers"] = [layer_sizes |-> <<1>>, dropouts |-> <<1>>]

\* ------------------------------------------------------------------------
\* Properties of generate_combo (SpecCombos)
\* ------------------------------------------------------------------------

InLowestTerms(x) == \A d \in 2..x[2] : ~(x[1] % d = 0 /\ x[2] % d = 0)

\* the value lists that generate_combo is given for one pair
GivenLists(cfg, mf) == Subcombo(cfg, mf[1], mf[2])

\* C27: for every subset handed to generate_combo the result has exactly the
\* given keys; under the grid, random and geometric searches the layers
\* entry and every list of strings come back unchanged; under the
\* user-specified search every list comes back with all its elements in
\* order, an element of an integral parameter cut to its integer part and
\* an element of a float parameter as the same number; the combinations are
\* built from these lists.
C27_ComboFrame ==
    pc = "generated" =>
        \A mf \in SubsetPairs(params.cfg) :
            LET cfg   == params.cfg
                given == GivenLists(cfg, mf)
                lists == generate_combo(cfg, given)
                cs    == CombosOf(param_combos, mf)
            IN  /\ DOMAIN lists = DOMAIN given
                /\ \A k \in DOMAIN given :
                      (k = "layers" \/ k \in StringKeys) => lists[k] = given[k]
                /\ cfg.search_type = "user_specified" =>
                      \A k \in DOMAIN given \ ({"layers"} \cup StringKeys) :
                          /\ Len(lists[k]) = Len(given[k])
                          /\ \A n \in 1..Len(given[k]) :
                                IF k \in cfg.convert_to_int
                                THEN /\ lists[k][n][2] = 1
                                     /\ IsTruncationOf(lists[k][n][1], given[k][n])
                                ELSE IF k \in cfg.convert_to_float
                                THEN /\ SameFraction(lists[k][n], given[k][n])
                                     /\ InLowestTerms(lists[k][n])
                                ELSE lists[k][n] = given[k][n]
                /\ \A n \in 1..Len(cs) :
                      /\ DOMAIN cs[n] = DOMAIN given
                      /\ \A k \in DOMAIN given : cs[n][k] \in Range(lists[k])

\* a user-specified search over two learning rates given as 2/4 and 2, a
\* float parameter: the networks run with 1/2 and with 2, in this order
C27_Witness ==
    /\ pc = "generated"
    /\ params.cfg.search_type = "user_specified"
    /\ "learning_rate" \in params.cfg.convert_to_float
    /\ params.cfg.learning_rate = << <<2, 4>>, <<2, 1>> >>
    /\ params.cfg.model_type = <<"NN">>
    /\ params.cfg.featurizer = <<"ecfp">>
    /\ params.cfg.layer_sizes = <<>>
    /\ Len(param_combos) = 2
    /\ param_combos[1]["learning_rate"] = <<1, 2>>
    /\ param_combos[2]["learning_rate"] = <<2, 1>>

\* ------------------------------------------------------------------------
\* Properties of generate_assay_list in default mode (SpecAssays)
\* ------------------------------------------------------------------------

DefaultMode == rs_args.method = "generate_assay_list" /\ ~rs_args.use_shortlist

\* the same text without white space around it
Unpadded(x) == [none |-> x.none, text |-> x.text, padded |-> FALSE]

\* a field as the list holds it: as appended before line 430 has run,
\* without its white space after
AsHeld(x) == IF rs_pc = "done" THEN Unpadded(x) ELSE x

\* the splitter loop is through: before line 430, after it, or where line
\* 430 raised
SplitterLoopDone ==
    \/ rs_pc \in {"strip", "done"}
    \/ rs_pc = "exited" /\ rs_exit = "AttributeError"

\* what call n of the split operation returned
Returned(n) == IF split_calls[n].outcome = "id" THEN Str(UuidNames[n]) ELSE NoneValue

\* C21: in default mode, once the loop over the declared splitters is
\* through, the list holds one assay per declared splitter, in splitter
\* order, for the configured dataset and bucket; if previously_split is set
\* and split_uuid is not None every assay carries the configured split_uuid
\* and the split operation was not called; otherwise it was called once per
\* splitter, with that splitter, and assay n holds what call n returned.
C21_OnePerSplitter ==
    (DefaultMode /\ SplitterLoopDone) =>
        LET items == assay_list.items
            configured == /\ rs_args.attrs = {"previously_split", "split_uuid"}
                          /\ rs_args.previously_split
                          /\ rs_args.split_uuid # NoneValue
        IN  /\ ~assay_list.none
            /\ Len(items) = Len(rs_args.splitter)
            /\ \A n \in 1..Len(items) :
                  /\ items[n][1] = AsHeld(rs_args.dataset_key)
                  /\ items[n][2] = AsHeld(rs_args.bucket)
                  /\ items[n][3] = AsHeld(rs_args.splitter[n])
            /\ IF configured
               THEN /\ split_calls = <<>>
                    /\ \A n \in 1..Len(items) : items[n][4] = AsHeld(rs_args.split_uuid)
               ELSE /\ Len(split_calls) = Len(rs_args.splitter)
                    /\ \A n \in 1..Len(items) :
                          /\ split_calls[n].splitter = rs_args.splitter[n]
                          /\ split_calls[n].dataset_key = rs_args.dataset_key
                          /\ items[n][4] = AsHeld(Returned(n))

\* two declared splitters, no configured split: two calls, two assays, each
\* with the id its call returned
C21_Witness ==
    /\ DefaultMode
    /\ rs_pc = "done"
    /\ rs_args.splitter = <<Str("random"), Str("scaffold")>>
    /\ ~rs_args.previously_split
    /\ Len(split_calls) = 2
    /\ assay_list.items[1] = <<Str("ds0"), Str("bk0"), Str("random"), Str("uuid1")>>
    /\ assay_list.items[2] = <<Str("ds0"), Str("bk0"), Str("scaffold"), Str("uuid2")>>

\* ------------------------------------------------------------------------
\* Properties of generate_assay_list in both modes (SpecAssays)
\* ------------------------------------------------------------------------

\* a str without white space around it
StrippedString(x) == ~x.none /\ ~x.padded

\* C23: generate_assay_list, in default mode and in shortlist mode and
\* whatever the split operation does (an id, None after the last attempt,
\* an exception), does not fail on the strip of a field, and the list it
\* leaves holds four stripped strings per assay.
C23_StrippedStrings ==
    rs_args.method = "generate_assay_list" =>
        /\ rs_exit # "AttributeError"
        /\ rs_pc = "done" =>
              /\ ~assay_list.none
              /\ \A n \in 1..Len(assay_list.items) : \A f \in 1..4 :
                    StrippedString(assay_list.items[n][f])

\* ------------------------------------------------------------------------
\* Properties of get_shortlist_df (SpecAssays)
\* ------------------------------------------------------------------------

\* the bucket of row n: from the bucket column if the table has one, the
\* configured bucket otherwise
BucketOfRow(n) ==
    IF rs_args.df.bucket_col \in {"bucket", "bucket_name"} THEN rs_args.df.buckets[n]
    ELSE rs_args.bucket

\* C25: the datasets get_shortlist_df builds are one (dataset, bucket) entry
\* per row of the shortlist, in row order, with the bucket of the row's
\* bucket or bucket_name column, or the configured bucket if the shortlist
\* has neither.
C25_EntryPerRow ==
    ~datasets.none =>
        /\ Len(datasets.items) = Len(rs_args.df.names)
        /\ \A n \in 1..Len(datasets.items) :
              datasets.items[n] = <<Unpadded(rs_args.df.names[n]), Unpadded(BucketOfRow(n))>>

\* ------------------------------------------------------------------------
\* Properties of generate_split_shortlist (SpecAssays)
\* ------------------------------------------------------------------------

\* the six split columns of the augmented shortlist
SixSplitNames ==
    {"random_10_10", "random_10_20", "random_20_20", "scaffold_10_10", "scaffold_10_20",
     "scaffold_20_20"}

\* the position of a split column among the six
ComboIndex(name) ==
    CHOOSE k \in 1..Len(SplitCombos) :
        SplitName(SplitCombos[k].splitter, SplitCombos[k].split_combo[1],
                  SplitCombos[k].split_combo[2]) = name

\* the rows are complete: the upload is being attempted or is over
RowsComplete == rs_pc = "upload" \/ (rs_pc = "returned" /\ ~datasets.none)

\* C24: generate_split_shortlist builds one row per dataset of the
\* shortlist, each with an entry for all six combinations of splitter and
\* fraction pair, the entry being the id the split returned or None where
\* it failed, six calls per dataset whatever failed; what is uploaded is
\* this table; and when the initial fetch of the shortlist failed on every
\* attempt nothing is split and nothing uploaded.
C24_RowPerDataset ==
    rs_args.method = "generate_split_shortlist" =>
        /\ (rs_pc = "returned" /\ datasets.none) => (split_calls = <<>> /\ uploads = <<>>)
        /\ \A u \in 1..Len(uploads) : uploads[u] = shortlist_rows
        /\ RowsComplete =>
              /\ Len(shortlist_rows) = Len(rs_args.df.names)
              /\ Len(split_calls) = Len(SplitCombos) * Len(shortlist_rows)
              /\ \A n \in 1..Len(shortlist_rows) :
                    LET row == shortlist_rows[n]
                    IN  /\ DOMAIN row = {"dataset_key", "bucket"} \cup SixSplitNames
                        /\ row["dataset_key"] = Unpadded(rs_args.df.names[n])
                        /\ \A name \in SixSplitNames :
                              row[name] = Returned((n - 1) * Len(SplitCombos) + ComboIndex(name))


\* ------------------------------------------------------------------------
\* The duplicate check between the candidates of one sweep
\* ------------------------------------------------------------------------

\* the hyperparameters the configured combinations sweep
SweptKeys == UNION {DOMAIN param_combos[n] : n \in 1..Len(param_combos)}
                 \ {"model_type", "featurizer"}

\* the model was trained with the candidate's value of every swept key
SameSweptValues(model, record) ==
    \A k \in SweptKeys : k \in DOMAIN model.params /\ model.params[k] = record[k]

\* C31: a candidate is skipped as a duplicate only when the registry holds
\* a model trained with the same value of every swept hyperparameter: the
\* filters of two candidates of one assay that differ in a swept
\* hyperparameter differ
C31_SweptValuesTellApart ==
    "dup_rejected" \in trail =>
        \E model \in registry : SameSweptValues(model, assay_params)


\* C32: a registry query that failed on every attempt up to the ceiling
\* counts as "not run": the candidate is not skipped but goes on to the
\* queue throttle, leaves it only with a count below max_jobs, is handed to
\* run_command, and the loop moves on to the next candidate.
C32_GaveUpNotSkipped ==
    [][/\ (pc = "already_run" /\ loop_pc = "gave_up") =>
             /\ failures = RetryLimit["already_run"] + 1
             /\ pc' = AfterChecks
             /\ a' = a /\ c' = c
             /\ trail' = trail \cup {"query_gave_up"}
       /\ ("query_gave_up" \in trail' /\ pc # "run_command" /\ pc' = "run_command") =>
             IF param_combos = <<>> THEN pc = "already_run"
             ELSE pc = "poll" /\ jobs_in_queue' < params.max_jobs
       /\ ("query_gave_up" \in trail /\ "submitted" \notin trail /\ (a' # a \/ c' # c)) =>
             /\ pc = "run_command"
             /\ Len(submitted') = Len(submitted) + 1
             /\ submitted'[Len(submitted')].a = a
             /\ submitted'[Len(submitted')].c = c
             /\ pc' \in {"for_combo", "for_assay"}]_vars

\* the second run gave up on the query for a candidate whose model is in
\* the registry, polled the queue and submitted the candidate again, and
\* combinations remain
C32_Witness ==
    /\ run = "second"
    /\ registry # {}
    /\ {"query_gave_up", "polled", "submitted"} \subseteq trail
    /\ pc = "for_combo"
    /\ c <= Len(param_combos)


\* ------------------------------------------------------------------------
\* The splitter a split is run with (SpecAssays)
\* ------------------------------------------------------------------------

\* return_split_uuid, lines 517-518: the splitter the split operation is
\* run with, self.params.splitter as it stands when none is passed (a
\* string is the list of that one string, as in lines 411-414)
SplitterUsed(call) ==
    IF call.splitter.none THEN [n \in 1..Len(rs_args.splitter) |-> Unpadded(rs_args.splitter[n])]
    ELSE <<Unpadded(call.splitter)>>

\* the assays generate_assay_list has collected so far
AssaysSoFar == Range(assay_list.items) \cup Range(shortlist_assays)

\* C33: every assay of generate_assay_list whose split identifier was
\* newly computed holds an identifier that a split run with that assay's
\* own splitter returned, in default mode and in shortlist mode, with one
\* declared splitter or several.
C33_SplitWithOwnSplitter ==
    rs_args.method = "generate_assay_list" =>
        \A assay \in AssaysSoFar : \A n \in 1..Len(split_calls) :
            (split_calls[n].outcome = "id" /\ Unpadded(assay[4]) = Str(UuidNames[n])) =>
                SplitterUsed(split_calls[n]) = <<Unpadded(assay[3])>>


\* ------------------------------------------------------------------------
\* Properties of split_and_save_dataset (SpecSplit)
\* ------------------------------------------------------------------------

\* C34: split_and_save_dataset called on a GridSearch, RandomSearch,
\* GeometricSearch or UserSpecifiedSearch instance ends by returning, with
\* the metadata fetched and the dataset split and saved exactly once, and
\* with previously_split = True and the new split_uuid in assay_params.
C34_SplitsAndSavesOnce ==
    (sas_self \in SearchClasses \ {"HyperparameterSearch"} /\ sas_exit # "") =>
        /\ sas_exit = "returned"
        /\ sas_ops = <<"get_dataset_metadata", "split_dataset", "save_split_dataset">>
        /\ sas_params.previously_split
        /\ sas_params.split_uuid = "new"

=============================================================================
